---------------------------- MODULE Spec2Model ----------------------------
(***************************************************************************)
(* A model of the scripture corpus builder and the corpus splitters of     *)
(* silnlp:                                                                 *)
(*   - silnlp/common/corpus.py: get_scripture_parallel_corpus, the loop    *)
(*     that zips vref.txt with a source and a target file and merges       *)
(*     <range> lines into the last accepted row (specification SpecCorpus) *)
(*   - silnlp/common/corpus.py and silnlp/nmt/corpus_pairs_config.py:      *)
(*     split_corpus, the draw of a set of sentence indices (SpecSplit)     *)
(*   - silnlp/nmt/corpus_pairs_config.py: CorpusPairsConfig._build_corpora,*)
(*     the loop over the corpus pairs that draws each pair's test,         *)
(*     validation and train indices and writes its sentences to the test,  *)
(*     val and train files (SpecBuild). src_noise is empty and the         *)
(*     SentencePiece encoding is left out.                                 *)
(*   - silnlp/common/corpus.py: split_parallel_corpus (SpecSplitParallel)  *)
(*     and filter_parallel_corpus (SpecFilter), on tables of rows.         *)
(*   - silnlp/nmt/preprocess.py: add_to_eval_dataset (SpecEval) and the    *)
(*     loop of preprocess_scripture over the target files, one pass an     *)
(*     action, with write_val_corpora at its end (SpecPrep).               *)
(*   - silnlp/common/canon.py: the table of book ids and its two lookups   *)
(*     (SpecCanon).                                                        *)
(*   - silnlp/alignment/bulk_align.py: process_alignments, in a pool of    *)
(*     worker processes or in a loop, and align_set (SpecAlign).           *)
(* Texts are sequences of tokens: a word is one token, a blank is the      *)
(* token " " and a line break the token "\n", so that stripping a line and *)
(* joining two texts with a blank are computed, not assumed.  A float is a *)
(* number of FloatDen-ths; an Optional[Set[int]] is a record that is None  *)
(* or holds a set.                                                         *)
(***************************************************************************)
EXTENDS Integers, Sequences, FiniteSets, TLC

VARIABLES
    \* get_scripture_parallel_corpus (corpus.py:36-93)
    vref_file,               \* vref.txt: the references, one per physical line
    lines,                   \* the (src_line, trg_line) pairs read so far, raw
    remove_empty_sentences,  \* the parameter of the call
    index,                   \* corpus.py:46
    vrefs,                   \* corpus.py:39
    src_sentences,           \* corpus.py:40
    trg_sentences,           \* corpus.py:41
    indices,                 \* corpus.py:42
    pc,                      \* "loop", "returned" or "error" (an exception left the call)
    \* split_corpus (corpus.py:135-144, corpus_pairs_config.py:119-128)
    corpus_size,             \* the arguments of the call
    split_size,
    used_indices,
    sample_size,             \* split_size after corpus.py:136-137
    split_result,            \* the value returned
    split_pc,                \* "call" or "returned"
    \* CorpusPairsConfig._build_corpora (corpus_pairs_config.py:145-217)
    corpus_pairs,            \* self.corpus_pairs, each pair with the lines of its files
    mirror,                  \* self.mirror
    pair_no,                 \* the place of pair in corpus_pairs (the loop of line 160)
    pair_corpus_size,        \* corpus_size, corpus_pairs_config.py:161
    test_indices,            \* corpus_pairs_config.py:163-166
    val_indices,             \* corpus_pairs_config.py:168-171
    train_indices,           \* corpus_pairs_config.py:173-176
    line_no,                 \* physical lines of the pair's files read
    line_index,              \* index, corpus_pairs_config.py:186
    test_out,                \* the test files, by prefix: the lines written to each
    val_out,                 \* the lines written to val.src.txt / val.trg.txt
    train_out,               \* the lines written to train.src.txt / train.trg.txt
    pair_splits,             \* the index sets each finished pair was split by
    build_pc,                \* "test", "val", "train", "write" or "done"
    \* split_parallel_corpus (corpus.py:103-120)
    par_corpus,              \* corpus: the table, a set of rows with distinct index labels
    par_split_size,          \* split_size
    par_split_indices,       \* split_indices, None or a set
    par_result,              \* the (corpus, split) returned
    par_pc,                  \* "call" or "returned"
    \* filter_parallel_corpus (corpus.py:123-132)
    flt_corpus,              \* corpus, with its score column
    flt_score_threshold,     \* score_threshold
    flt_result,              \* the table returned
    flt_pc,                  \* "call" or "returned"
    \* add_to_eval_dataset (preprocess.py:209-236)
    eval_write_trg_tag,      \* write_trg_tag
    eval_dataset,            \* dataset: the table of every language pair
    eval_pair_indices,       \* pair_indices
    eval_calls,              \* the calls made so far: their pair, project and new_data
    \* preprocess_scripture (preprocess.py:280-460)
    data_config,             \* config["data"]: the settings the function reads
    vref_books,              \* vref.txt: the book of every physical line
    trg_file_paths,          \* the target files to train on, sorted
    train_only_trg_file_paths,  \* those of them not to test on
    test_only_trg_file_paths,   \* the target files to test on only, sorted
    file_no,                 \* the target files the loop of line 323 has handled
    scripture_test_indices,  \* test_indices, preprocess.py:304
    scripture_val_indices,   \* val_indices, preprocess.py:305
    scripture_train,         \* train: None or its rows, each with the index label it had
    scripture_val,           \* val, by language pair
    scripture_test,          \* test, by language pair
    pair_val_indices,        \* preprocess.py:310
    pair_test_indices,       \* preprocess.py:311
    pass,                    \* the tables of the last pass of the loop
    multi_ref_eval,          \* config["eval"]["multi_ref_eval"] as write_val_corpora is given it
    val_src_file,            \* val.src.txt: its lines
    ref_files,               \* val.trg.txt, or val.trg.txt.0, val.trg.txt.1, ...: their lines
    prep_pc,                 \* "loop" or "done"
    \* book_number_to_id and book_id_to_number (canon.py:130-141)
    canon_call,              \* the function called first
    book_number,             \* number, its argument
    book_id,                 \* id, its argument
    number_to_id,            \* what book_number_to_id left: an id or an error
    id_to_number,            \* what book_id_to_number left: a number or an error
    canon_pc,                \* "call", "returned", "raised" or "round_trip"
    \* process_alignments (bulk_align.py:46-74)
    trg_paths,               \* trg_paths: the stems of the target files
    multiprocess,            \* multiprocess
    cpu_count,               \* what multiprocessing.cpu_count() returns
    align_fails,             \* the targets align_set raises for, at lines 21-30
    had_scores,              \* the targets that had alignment.scores.txt at the call
    align_fs,                \* the directories and files under output_dir
    align_writes,            \* the files written so far, each with the unit that wrote it
    align_runs,              \* how often align_set has been called for each target
    all_kwargs,              \* all_kwargs: the targets of the units to map
    task_queue,              \* the chunks of units no worker has taken yet
    pool_workers,            \* each worker process: the rest of its chunk and where it is in align_set
    number_left,             \* the chunks of the map that have not ended
    map_failed,              \* a chunk of the map has raised
    seq_rest,                \* the targets the loop of line 68 has not handled yet
    seq_stage,               \* where the sequential loop is in align_set
    align_pc                 \* "start", "pool", "get", "returned" or "raised"

corpusVars == <<vref_file, lines, remove_empty_sentences, index, vrefs,
                src_sentences, trg_sentences, indices, pc>>

splitVars == <<corpus_size, split_size, used_indices, sample_size, split_result, split_pc>>

buildVars == <<corpus_pairs, mirror, pair_no, pair_corpus_size, test_indices, val_indices,
               train_indices, line_no, line_index, test_out, val_out, train_out,
               pair_splits, build_pc>>

parVars == <<par_corpus, par_split_size, par_split_indices, par_result, par_pc>>

fltVars == <<flt_corpus, flt_score_threshold, flt_result, flt_pc>>

evalVars == <<eval_write_trg_tag, eval_dataset, eval_pair_indices, eval_calls>>

prepVars == <<data_config, vref_books, trg_file_paths, train_only_trg_file_paths,
              test_only_trg_file_paths, file_no, scripture_test_indices,
              scripture_val_indices, scripture_train, scripture_val,
              scripture_test, pair_val_indices,
              pair_test_indices, pass, multi_ref_eval, val_src_file, ref_files,
              prep_pc>>

canonVars == <<canon_call, book_number, book_id, number_to_id, id_to_number, canon_pc>>

alignVars == <<trg_paths, multiprocess, cpu_count, align_fails, had_scores, align_fs,
               align_writes, align_runs, all_kwargs, task_queue, pool_workers,
               number_left, map_failed, seq_rest, seq_stage, align_pc>>

vars == <<corpusVars, splitVars, buildVars, parVars, fltVars, evalVars, prepVars, canonVars, alignVars>>

\* What each part of the program leaves alone: the state of the other parts.
notCorpusVars == <<alignVars, canonVars, prepVars, evalVars, splitVars, buildVars, parVars, fltVars>>
notSplitVars == <<alignVars, canonVars, prepVars, evalVars, corpusVars, buildVars, parVars, fltVars>>
notBuildVars == <<alignVars, canonVars, prepVars, evalVars, corpusVars, splitVars, parVars, fltVars>>
notParVars == <<alignVars, canonVars, prepVars, evalVars, corpusVars, splitVars, buildVars, fltVars>>
notFltVars == <<alignVars, canonVars, prepVars, evalVars, corpusVars, splitVars, buildVars, parVars>>
notEvalVars == <<alignVars, canonVars, prepVars, corpusVars, splitVars, buildVars, parVars, fltVars>>
notPrepVars == <<alignVars, canonVars, corpusVars, splitVars, buildVars, parVars, fltVars, evalVars>>
notCanonVars == <<alignVars, corpusVars, splitVars, buildVars, parVars, fltVars, evalVars, prepVars>>
notAlignVars == <<corpusVars, splitVars, buildVars, parVars, fltVars, evalVars, prepVars, canonVars>>

---------------------------------------------------------------------------
(* Bounds of the model. *)

\* The longest input: physical lines read before a file ends.
MaxLines == 4
\* vref.txt is laid out with 1..MaxVerses verses in every chapter
MaxVerses == 3
\* and 1..MaxChapters chapters in every book.
MaxChapters == 2
\* A float size is num / FloatDen, a multiple of a quarter: such floats and
\* their products with a small integer are exact in binary floating point.
FloatDen == 4
\* The largest num of a size: ints 0..MaxNum, floats 0..MaxNum/FloatDen.
MaxNum == 6
\* The largest corpus_size split_corpus is called with.
MaxCorpus == 4
\* The longest source and target file of a corpus pair, in physical lines.
MaxFileLines == 3
\* The largest test_size and val_size a corpus pair is configured with.
MaxSplit == 2
\* The number of physical lines a table's index labels are drawn from.
MaxIndex == 3
\* The largest split_size split_parallel_corpus is called with.
MaxParSize == 4
\* The largest score_threshold, in FloatDen-ths.
MaxThreshold == 12
\* How far past the ends of the canon table the book numbers of the calls go.
NumberMargin == 2

---------------------------------------------------------------------------
(* Texts *)

Last(s) == s[Len(s)]

Whitespace == {" ", "\n"}

RECURSIVE LStrip(_)
LStrip(s) == IF s # <<>> /\ Head(s) \in Whitespace THEN LStrip(Tail(s)) ELSE s

RECURSIVE RStrip(_)
RStrip(s) ==
    IF s # <<>> /\ Last(s) \in Whitespace THEN RStrip(SubSeq(s, 1, Len(s) - 1)) ELSE s

\* str.strip()
Strip(s) == RStrip(LStrip(s))

\* the literal "<range>"
RANGE == <<"<range>">>

\* The raw lines a source file and a target file may hold: the range marker,
\* an empty line, a line of one word.
SrcLines == {<<"<range>", "\n">>, <<"\n">>, <<"s", "\n">>}
TrgLines == {<<"<range>", "\n">>, <<"\n">>, <<"t", "\n">>}

---------------------------------------------------------------------------
(* VerseRef (machine.scripture) *)

\* VerseRef.from_string on a line of vref.txt, <<book, chapter, verse>>: a
\* reference to one verse. end_verse = 0 stands for "no range".
FromString(vref_line) ==
    [book_num |-> vref_line[1], chapter_num |-> vref_line[2],
     verse_num |-> vref_line[3], end_verse |-> 0]

\* VerseRef.simplify(): the reference keeps its first verse only.
Simplify(vref) == [vref EXCEPT !.end_verse = 0]

\* VerseRef.from_range(start, end): the range start.verse_num-end.verse_num
\* in start's book and chapter. The call site guarantees equal chapter
\* numbers only; for references of two different books the library either
\* builds the range or raises, and both outcomes are kept.
FromRange(start, end) ==
    LET merged == [ok |-> TRUE,
                   vref |-> [book_num |-> start.book_num,
                             chapter_num |-> start.chapter_num,
                             verse_num |-> start.verse_num,
                             end_verse |-> end.verse_num]]
    IN  IF start.book_num = end.book_num
        THEN {merged}
        ELSE {merged, [ok |-> FALSE, vref |-> start]}

\* Line i (0-based) of a vref.txt with vpc verses per chapter and cpb
\* chapters per book, in canonical order.
VrefAt(i, vpc, cpb) ==
    <<(i \div (vpc * cpb)) + 1, ((i \div vpc) % cpb) + 1, (i % vpc) + 1>>

VrefFiles ==
    {[i \in 1..MaxLines |-> VrefAt(i - 1, vpc, cpb)] :
        vpc \in 1..MaxVerses, cpb \in 1..MaxChapters}

---------------------------------------------------------------------------
(* split_corpus: corpus.py:135-144 and its copy corpus_pairs_config.py:119-128 *)

\* A split size: an int num, or the float num / FloatDen.
IntSize(n) == [float |-> FALSE, num |-> n]
FloatSize(n) == [float |-> TRUE, num |-> n]
Sizes == {IntSize(n) : n \in 0..MaxNum} \cup {FloatSize(n) : n \in 0..MaxNum}

\* Optional[Set[int]]: None, or a set of indices.
None == [none |-> TRUE, set |-> {}]
Some(s) == [none |-> FALSE, set |-> s]

SplitCountFromOne(size, split) ==
    IF split.float
    THEN IF split.num >= FloatDen
         THEN split.num \div FloatDen
         ELSE (size * split.num) \div FloatDen
    ELSE split.num

\* corpus.py:136-137: the number of indices asked for. int() truncates, and
\* the sizes are not negative.
SplitCount(size, split) ==
    IF split.float
    THEN IF split.num > FloatDen
         THEN split.num \div FloatDen
         ELSE (size * split.num) \div FloatDen
    ELSE split.num

\* corpus.py:138-140
Population(size, used) ==
    IF Cardinality(used) = 0
    THEN 0..(size - 1)
    ELSE {i \in 0..(size - 1) : i \notin used}

\* random.sample(population, k) as a set: any k of the population.
Sample(population, k) == {s \in SUBSET population : Cardinality(s) = k}

SplitCorpusNoneOnlyWhenLarger(size, split, used) ==
    IF SplitCount(size, split) > Cardinality(Population(size, used))
    THEN {None}
    ELSE {Some(s) : s \in Sample(Population(size, used),
                                 IF SplitCount(size, split) > Cardinality(Population(size, used))
                                 THEN 0 ELSE SplitCount(size, split))}

\* corpus.py:135-144: the values split_corpus may return.
SplitCorpus(size, split, used) ==
    IF SplitCount(size, split) >= Cardinality(Population(size, used))
    THEN {None}
    ELSE {Some(s) : s \in Sample(Population(size, used), SplitCount(size, split))}

SplitIdle ==
    /\ corpus_size = 0
    /\ split_size = IntSize(0)
    /\ used_indices = {}
    /\ sample_size = 0
    /\ split_result = None
    /\ split_pc = "idle"

---------------------------------------------------------------------------
(* get_scripture_parallel_corpus *)

MergeRangeSwapped(last, vref) ==
    IF vref.chapter_num = last.chapter_num
    THEN FromRange(vref, Simplify(last))
    ELSE {[ok |-> TRUE, vref |-> last]}

MergeRangeAnyChapter(last, vref) == FromRange(Simplify(last), vref)

\* corpus.py:53-55, 57-59, 65-67: the reference of the last accepted row
\* after a range line at vref. The outcomes: [ok, vref].
MergeRange(last, vref) ==
    IF vref.chapter_num = last.chapter_num
    THEN FromRange(Simplify(last), vref)
    ELSE {[ok |-> TRUE, vref |-> last]}

AppendTextAlwaysBlank(cell, line) ==
    IF Len(line) > 0 THEN cell \o <<" ">> \o line ELSE cell

\* corpus.py:60-63, 68-71: the cell of the last accepted row after the
\* other side's line of a one-sided range line.
AppendText(cell, line) ==
    IF Len(line) > 0
    THEN (IF Len(cell) > 0 THEN cell \o <<" ">> ELSE cell) \o line
    ELSE cell

RowIndexPosition(idx, rows) == Len(rows)

\* corpus.py:76: the index a new row gets.
RowIndex(idx, rows) == idx

SetLast(s, v) == [s EXCEPT ![Len(s)] = v]

CorpusInit ==
    /\ vref_file \in VrefFiles
    /\ lines = <<>>
    /\ remove_empty_sentences \in BOOLEAN
    /\ index = 0
    /\ vrefs = <<>>
    /\ src_sentences = <<>>
    /\ trg_sentences = <<>>
    /\ indices = <<>>
    /\ pc = "loop"

CorpusIdle ==
    /\ vref_file = <<>>
    /\ lines = <<>>
    /\ remove_empty_sentences = TRUE
    /\ index = 0
    /\ vrefs = <<>>
    /\ src_sentences = <<>>
    /\ trg_sentences = <<>>
    /\ indices = <<>>
    /\ pc = "idle"

\* The range line at position i is passed over as if it had not been read.
AfterRangeWithoutRowSkipped(i) == [pc |-> "loop", index |-> i + 1]

\* corpus.py:53, 57, 65: a range line reads vrefs[-1]; on an empty list this
\* raises IndexError and the call ends at line i without a table.
AfterRangeWithoutRow(i) == [pc |-> "error", index |-> i]

\* One pass of the loop body, corpus.py:47-77, on the next physical line.
ReadLine(raw_src, raw_trg) ==
    LET src_line == Strip(raw_src)
        trg_line == Strip(raw_trg)
        vref == FromString(vref_file[index + 1])
        isRange == src_line = RANGE \/ trg_line = RANGE
    IN
    /\ pc = "loop"
    /\ index < Len(vref_file)
    /\ lines' = Append(lines, <<raw_src, raw_trg>>)
    /\ UNCHANGED <<vref_file, remove_empty_sentences>>
    /\ UNCHANGED notCorpusVars
    /\ IF isRange /\ vrefs = <<>>
       THEN LET after == AfterRangeWithoutRow(index) IN
            /\ pc' = after.pc
            /\ index' = after.index
            /\ UNCHANGED <<vrefs, src_sentences, trg_sentences, indices>>
       ELSE IF isRange
       THEN \E m \in MergeRange(Last(vrefs), vref) :
              IF ~m.ok
              THEN /\ pc' = "error"
                   /\ vrefs' = SetLast(vrefs, Simplify(Last(vrefs)))
                   /\ UNCHANGED <<index, src_sentences, trg_sentences, indices>>
              ELSE /\ pc' = "loop"
                   /\ index' = index + 1
                   /\ vrefs' = SetLast(vrefs, m.vref)
                   /\ indices' = indices
                   /\ IF src_line = RANGE /\ trg_line = RANGE
                      THEN UNCHANGED <<src_sentences, trg_sentences>>
                      ELSE IF src_line = RANGE
                      THEN /\ trg_sentences' =
                                SetLast(trg_sentences, AppendText(Last(trg_sentences), trg_line))
                           /\ UNCHANGED src_sentences
                      ELSE /\ src_sentences' =
                                SetLast(src_sentences, AppendText(Last(src_sentences), src_line))
                           /\ UNCHANGED trg_sentences
       ELSE /\ pc' = "loop"
            /\ index' = index + 1
            /\ vrefs' = Append(vrefs, vref)
            /\ src_sentences' = Append(src_sentences, src_line)
            /\ trg_sentences' = Append(trg_sentences, trg_line)
            /\ indices' = Append(indices, RowIndex(index, indices))

Read == \E raw_src \in SrcLines, raw_trg \in TrgLines : ReadLine(raw_src, raw_trg)

\* corpus.py:81, 88: the row has an empty source or an empty target.
IsEmptyRow(i) == Len(src_sentences[i]) = 0 \/ Len(trg_sentences[i]) = 0

\* Keep with the loop stopping before the first position.
KeepSkippingFirst(s, drop) ==
    LET F[i \in 0..Len(s)] ==
            IF i = 0 THEN <<>>
            ELSE IF i \in drop /\ i > 1 THEN F[i - 1] ELSE Append(F[i - 1], s[i])
    IN  F[Len(s)]

\* corpus.py:80-85: a list after pop(i) of every position i in drop, from
\* the last position down to the first.
Keep(s, drop) ==
    LET F[i \in 0..Len(s)] ==
            IF i = 0 THEN <<>>
            ELSE IF i \in drop THEN F[i - 1] ELSE Append(F[i - 1], s[i])
    IN  F[Len(s)]

DroppedBothEmpty ==
    {i \in 1..Len(vrefs) : Len(src_sentences[i]) = 0 /\ Len(trg_sentences[i]) = 0}

\* corpus.py:80-81: the rows popped when empty sentences are removed.
Dropped == {i \in 1..Len(vrefs) : IsEmptyRow(i)}

BlankNothing(s) == s

\* corpus.py:87-90: a column after the cells of the empty rows are blanked.
Blank(s) == [i \in 1..Len(s) |-> IF IsEmptyRow(i) THEN <<>> ELSE s[i]]

\* corpus.py:79-90: the four lists after the loop, by the parameter.
Post(flag) ==
    IF flag
    THEN [vrefs |-> Keep(vrefs, Dropped),
          src_sentences |-> Keep(src_sentences, Dropped),
          trg_sentences |-> Keep(trg_sentences, Dropped),
          indices |-> Keep(indices, Dropped)]
    ELSE [vrefs |-> vrefs,
          src_sentences |-> Blank(src_sentences),
          trg_sentences |-> Blank(trg_sentences),
          indices |-> indices]

\* corpus.py:92-93: pd.DataFrame(data, index=indices).
Table(vs, ss, ts, is) ==
    [i \in 1..Len(is) |->
        [index |-> is[i], vref |-> vs[i], source |-> ss[i], target |-> ts[i]]]

\* The table the call has returned, in a state where it has returned.
DataFrame == Table(vrefs, src_sentences, trg_sentences, indices)

\* The table the call returns with remove_empty_sentences = flag when a file
\* ends in the current state.
Result(flag) ==
    LET p == Post(flag)
    IN  Table(p.vrefs, p.src_sentences, p.trg_sentences, p.indices)

\* A file has ended (zip stops at the shortest): corpus.py:79-93.
Return ==
    /\ pc = "loop"
    /\ pc' = "returned"
    /\ vrefs' = Post(remove_empty_sentences).vrefs
    /\ src_sentences' = Post(remove_empty_sentences).src_sentences
    /\ trg_sentences' = Post(remove_empty_sentences).trg_sentences
    /\ indices' = Post(remove_empty_sentences).indices
    /\ UNCHANGED <<vref_file, lines, remove_empty_sentences, index>>
    /\ UNCHANGED notCorpusVars

CorpusNext == Read \/ Return

---------------------------------------------------------------------------
(* split_corpus *)

SplitInit ==
    /\ corpus_size \in 0..MaxCorpus
    /\ split_size \in Sizes
    /\ used_indices \in SUBSET (0..MaxCorpus)
    /\ sample_size = 0
    /\ split_result = None
    /\ split_pc = "call"

\* The call of split_corpus(corpus_size, split_size, used_indices).
CallSplitCorpus ==
    /\ split_pc = "call"
    /\ split_pc' = "returned"
    /\ sample_size' = SplitCount(corpus_size, split_size)
    /\ split_result' \in SplitCorpus(corpus_size, split_size, used_indices)
    /\ UNCHANGED <<corpus_size, split_size, used_indices>>
    /\ UNCHANGED notSplitVars

SplitNext == CallSplitCorpus

---------------------------------------------------------------------------
(* CorpusPairsConfig._build_corpora *)

\* No size configured (None).
NoSize == [float |-> FALSE, num |-> -1]

\* corpus_pairs_config.py:100, 103
DefaultSplitSize == 250

\* corpus_pairs_config.py:75-104: the CorpusPair parse_corpus_pairs makes of a
\* pair configured with a type, size, test_size and val_size (NoSize: not
\* configured) over two files with the lines input_file.
ParsePair(is_train, is_test, is_val, size, test_size, val_size, trg_iso, input_file) ==
    [is_train |-> is_train, is_test |-> is_test, is_val |-> is_val,
     size |-> size,
     test_size |-> IF test_size = NoSize /\ is_train /\ is_test
                   THEN IntSize(DefaultSplitSize) ELSE test_size,
     val_size |-> IF val_size = NoSize /\ is_train /\ is_val
                  THEN IntSize(DefaultSplitSize) ELSE val_size,
     src_iso |-> "en", trg_iso |-> trg_iso,
     input_file |-> input_file]

\* The configured sizes of the model: size is the default 1.0 or one
\* sentence; test_size and val_size are absent or a count.
ConfiguredSizes == {FloatSize(FloatDen), IntSize(1)}
ConfiguredSplitSizes == {NoSize} \cup {IntSize(n) : n \in 0..MaxSplit}

TrgIsos == {"fr", "de"}

\* A physical line of the two files: both sentences, or one of them missing.
FileLines ==
    {<<(<<"s", "\n">>), (<<"t", "\n">>)>>,
     <<(<<"\n">>), (<<"t", "\n">>)>>,
     <<(<<"s", "\n">>), (<<"\n">>)>>}

InputFiles == UNION {[1..n -> FileLines] : n \in 0..MaxFileLines}

\* The corpus pairs over the input files of a set.
CorpusPairs(files) ==
    {ParsePair(tr, te, va, size, ts, vs, "fr", file) :
        tr \in BOOLEAN, te \in BOOLEAN, va \in BOOLEAN,
        size \in ConfiguredSizes, ts \in ConfiguredSplitSizes, vs \in ConfiguredSplitSizes,
        file \in files}

\* The configurations: one corpus pair, or a corpus pair followed by a pair
\* of the same type and sizes, into the same or into another target
\* language, over files with the same lines.
Configurations(files) ==
    {<<p>> : p \in CorpusPairs(files)}
        \cup {<<p, [p EXCEPT !.trg_iso = iso]>> : p \in CorpusPairs(files), iso \in TrgIsos}

\* corpus_pairs_config.py:112-114, 188-191: the line is skipped.
IsSkipped(line) == Len(Strip(line[1])) = 0 \/ Len(Strip(line[2])) = 0

\* get_parallel_corpus_size, corpus_pairs_config.py:108-116
GetParallelCorpusSize(file) == Cardinality({k \in 1..Len(file) : ~IsSkipped(file[k])})

\* corpus_pairs_config.py:165, 170
TestSize(p) == IF p.test_size = NoSize THEN p.size ELSE p.test_size
ValSize(p) == IF p.val_size = NoSize THEN p.size ELSE p.val_size

\* corpus_pairs_config.py:163-166
TestSplit(p, size) ==
    IF p.is_test THEN SplitCorpus(size, TestSize(p), {}) ELSE {Some({})}

ValSplitIgnoringTest(p, size, test) ==
    IF p.is_val /\ ~test.none THEN SplitCorpus(size, ValSize(p), {}) ELSE {Some({})}

\* corpus_pairs_config.py:168-171
ValSplit(p, size, test) ==
    IF p.is_val /\ ~test.none THEN SplitCorpus(size, ValSize(p), test.set) ELSE {Some({})}

\* corpus_pairs_config.py:173-176
TrainSplit(p, size, test, val) ==
    IF p.is_train /\ ~test.none /\ ~val.none
    THEN SplitCorpus(size, p.size, test.set \cup val.set)
    ELSE {Some({})}

SelectsNoneAsEmpty(set, i) == ~set.none /\ i \in set.set

\* index in indices, for an Optional[Set[int]] that is None or holds index.
Selects(set, i) == set.none \/ i \in set.set

\* corpus_pairs_config.py:146
TestIsoPairs == {<<corpus_pairs[k].src_iso, corpus_pairs[k].trg_iso>> :
                    k \in {j \in 1..Len(corpus_pairs) : corpus_pairs[j].is_test}}

\* corpus_pairs_config.py:178
TestPrefix(p) ==
    IF Cardinality(TestIsoPairs) = 1 THEN <<"test">> ELSE <<"test", p.src_iso, p.trg_iso>>

\* open(..., "a"): the file exists afterwards, with the lines it had.
OpenToAppend(files, name) ==
    IF name \in DOMAIN files THEN files ELSE files @@ (name :> <<>>)

\* The pair of the running pass of the loop, and the lines of its files.
pair == corpus_pairs[pair_no]
input_file == pair.input_file

BuildIdle ==
    /\ corpus_pairs = <<>>
    /\ mirror = FALSE
    /\ pair_no = 0
    /\ pair_corpus_size = 0
    /\ test_indices = Some({})
    /\ val_indices = Some({})
    /\ train_indices = Some({})
    /\ line_no = 0
    /\ line_index = 0
    /\ test_out = <<>>
    /\ val_out = <<>>
    /\ train_out = <<>>
    /\ pair_splits = <<>>
    /\ build_pc = "idle"

\* corpus_pairs_config.py:146-160: the old test files are removed, the train
\* and val files are empty, the loop is at the first pair.
BuildInit ==
    /\ corpus_pairs \in Configurations(InputFiles)
    /\ mirror \in BOOLEAN
    /\ pair_no = 1
    /\ pair_corpus_size = 0
    /\ test_indices = Some({})
    /\ val_indices = Some({})
    /\ train_indices = Some({})
    /\ line_no = 0
    /\ line_index = 0
    /\ test_out = <<>>
    /\ val_out = <<>>
    /\ train_out = <<>>
    /\ pair_splits = <<>>
    /\ build_pc = "test"

\* corpus_pairs_config.py:161-166
SplitTest ==
    /\ UNCHANGED notBuildVars
    /\ build_pc = "test"
    /\ build_pc' = "val"
    /\ pair_corpus_size' = GetParallelCorpusSize(input_file)
    /\ test_indices' \in TestSplit(pair, GetParallelCorpusSize(input_file))
    /\ UNCHANGED <<corpus_pairs, mirror, pair_no, val_indices, train_indices, line_no,
                   line_index, test_out, val_out, train_out, pair_splits>>

\* corpus_pairs_config.py:168-171
SplitVal ==
    /\ UNCHANGED notBuildVars
    /\ build_pc = "val"
    /\ build_pc' = "train"
    /\ val_indices' \in ValSplit(pair, pair_corpus_size, test_indices)
    /\ UNCHANGED <<corpus_pairs, mirror, pair_no, pair_corpus_size, test_indices,
                   train_indices, line_no, line_index, test_out, val_out, train_out,
                   pair_splits>>

\* corpus_pairs_config.py:173-186: the train split, then the files are opened.
SplitTrain ==
    /\ UNCHANGED notBuildVars
    /\ build_pc = "train"
    /\ build_pc' = "write"
    /\ train_indices' \in TrainSplit(pair, pair_corpus_size, test_indices, val_indices)
    /\ test_out' = OpenToAppend(test_out, TestPrefix(pair))
    /\ line_no' = 0
    /\ line_index' = 0
    /\ UNCHANGED <<corpus_pairs, mirror, pair_no, pair_corpus_size, test_indices,
                   val_indices, val_out, train_out, pair_splits>>

\* A sentence pair written to a pair of output files: the corpus pair it is
\* of, the sentence index it was selected by, its source and its target
\* sentence.
Written(i, src, trg) == [pair |-> pair_no, index |-> i, src |-> src, trg |-> trg]

\* The tag "<2iso>" that names the language to translate into.
Tag(iso) == CASE iso = "en" -> "<2en>" [] iso = "fr" -> "<2fr>" [] iso = "de" -> "<2de>"

\* self.write_trg_tag: set when the model translates into more than one
\* language, that is with several target languages or with mirror.
self_write_trg_tag ==
    \/ mirror
    \/ Cardinality({corpus_pairs[k].trg_iso : k \in 1..Len(corpus_pairs)}) > 1

\* CorpusPairsConfig._insert_trg_tag, corpus_pairs_config.py:219-222
InsertTrgTag(iso, sentence) ==
    IF self_write_trg_tag THEN <<Tag(iso), " ">> \o sentence ELSE sentence

WithMirrorUnswapped(i, src_line, trg_line) ==
    IF mirror
    THEN <<Written(i, InsertTrgTag(pair.trg_iso, src_line), trg_line),
           Written(i, InsertTrgTag(pair.trg_iso, src_line), trg_line)>>
    ELSE <<Written(i, InsertTrgTag(pair.trg_iso, src_line), trg_line)>>

\* What a line adds to val or train: its sentence pair and, under mirror, the
\* mirror image of it (corpus_pairs_config.py:193-199, 204-215).
WithMirror(i, src_line, trg_line) ==
    IF mirror
    THEN <<Written(i, InsertTrgTag(pair.trg_iso, src_line), trg_line),
           Written(i, InsertTrgTag(pair.src_iso, trg_line), src_line)>>
    ELSE <<Written(i, InsertTrgTag(pair.trg_iso, src_line), trg_line)>>

\* One pass of the loop over the lines, corpus_pairs_config.py:187-217.
WriteLine ==
    LET src_line == Strip(input_file[line_no + 1][1])
        trg_line == Strip(input_file[line_no + 1][2])
        test_file == TestPrefix(pair)
    IN
    /\ UNCHANGED notBuildVars
    /\ build_pc = "write"
    /\ line_no < Len(input_file)
    /\ line_no' = line_no + 1
    /\ UNCHANGED <<corpus_pairs, mirror, pair_no, pair_corpus_size, test_indices,
                   val_indices, train_indices, pair_splits, build_pc>>
    /\ IF Len(src_line) = 0 \/ Len(trg_line) = 0
       THEN UNCHANGED <<line_index, test_out, val_out, train_out>>
       ELSE /\ line_index' = line_index + 1
            /\ IF pair.is_test /\ Selects(test_indices, line_index)
               THEN /\ test_out' = [test_out EXCEPT ![test_file] =
                                       Append(@, Written(line_index,
                                                         InsertTrgTag(pair.trg_iso, src_line),
                                                         trg_line))]
                    /\ UNCHANGED <<val_out, train_out>>
               ELSE IF pair.is_val /\ Selects(val_indices, line_index)
               THEN /\ val_out' = val_out \o WithMirror(line_index, src_line, trg_line)
                    /\ UNCHANGED <<test_out, train_out>>
               ELSE IF pair.is_train /\ Selects(train_indices, line_index)
               THEN /\ train_out' = train_out \o WithMirror(line_index, src_line, trg_line)
                    /\ UNCHANGED <<test_out, val_out>>
               ELSE UNCHANGED <<test_out, val_out, train_out>>

\* The files of the pair are read to the end: the loop of line 160 goes on
\* to the next pair, or is over.
EndOfFiles ==
    /\ UNCHANGED notBuildVars
    /\ build_pc = "write"
    /\ line_no = Len(input_file)
    /\ pair_splits' = Append(pair_splits, [test_indices |-> test_indices,
                                           val_indices |-> val_indices,
                                           train_indices |-> train_indices])
    /\ IF pair_no < Len(corpus_pairs)
       THEN pair_no' = pair_no + 1 /\ build_pc' = "test"
       ELSE pair_no' = pair_no /\ build_pc' = "done"
    /\ UNCHANGED <<corpus_pairs, mirror, pair_corpus_size, test_indices, val_indices,
                   train_indices, line_no, line_index, test_out, val_out, train_out>>

BuildNext == SplitTest \/ SplitVal \/ SplitTrain \/ WriteLine \/ EndOfFiles

---------------------------------------------------------------------------
(* Tables (pandas.DataFrame): a table is the set of its rows, each with its *)
(* index label; the order of the rows is left out.                          *)

\* No score column.
NoScore == -1

\* A row of the table of a source and a target project: its index label (the
\* physical line), the book of its reference, its two sentences and its
\* alignment score, in FloatDen-ths.
Row(i, book, source, target, score) ==
    [index |-> i, book |-> book, source |-> source, target |-> target, score |-> score]

\* The index labels of a table: corpus.index.
Index(table) == {r.index : r \in table}

\* The tables of the model over the index labels 0..MaxIndex-1, one row per
\* label at most, every row with a score between 0 and 1.
ScoredTables ==
    UNION {{{Row(i, 1, <<"s">>, <<"t">>, score[i]) : i \in labels} :
                score \in [labels -> 0..FloatDen]} :
            labels \in SUBSET (0..(MaxIndex - 1))}

\* The same tables without a score column.
Tables ==
    {{Row(i, 1, <<"s">>, <<"t">>, NoScore) : i \in labels} :
        labels \in SUBSET (0..(MaxIndex - 1))}

---------------------------------------------------------------------------
(* split_parallel_corpus, corpus.py:103-120 *)

\* sklearn.model_selection.train_test_split(corpus, test_size=k) for an int
\* 0 < k < len(corpus): any k rows are the split, the others the remainder.
TrainTestSplit(corpus, k) ==
    {[corpus |-> corpus \ split, split |-> split] :
        split \in {t \in SUBSET corpus : Cardinality(t) = k}}

SplitParallelCorpusKeepingRows(corpus, size, split_indices) ==
    IF split_indices.none
    THEN IF size = 0
         THEN {[corpus |-> corpus, split |-> {}]}
         ELSE IF size >= Cardinality(corpus)
         THEN {[corpus |-> {}, split |-> corpus]}
         ELSE TrainTestSplit(corpus, size)
    ELSE {[corpus |-> corpus,
           split |-> {r \in corpus : r.index \in split_indices.set}]}

SplitParallelCorpusEmptyAtLen(corpus, size, split_indices) ==
    IF split_indices.none
    THEN IF size = 0 \/ size = Cardinality(corpus)
         THEN {[corpus |-> corpus, split |-> {}]}
         ELSE IF size > Cardinality(corpus)
         THEN {[corpus |-> {}, split |-> corpus]}
         ELSE TrainTestSplit(corpus, size)
    ELSE {[corpus |-> {r \in corpus : r.index \notin split_indices.set},
           split |-> {r \in corpus : r.index \in split_indices.set}]}

\* The (corpus, split) pairs split_parallel_corpus can return for an int
\* split_size.
SplitParallelCorpus(corpus, size, split_indices) ==
    IF split_indices.none
    THEN IF size = 0
         THEN {[corpus |-> corpus, split |-> {}]}
         ELSE IF size >= Cardinality(corpus)
         THEN {[corpus |-> {}, split |-> corpus]}
         ELSE TrainTestSplit(corpus, size)
    ELSE {[corpus |-> {r \in corpus : r.index \notin split_indices.set},
           split |-> {r \in corpus : r.index \in split_indices.set}]}

ParIdle ==
    /\ par_corpus = {}
    /\ par_split_size = 0
    /\ par_split_indices = None
    /\ par_result = [corpus |-> {}, split |-> {}]
    /\ par_pc = "idle"

\* A call with an int split_size and with split_indices None or a set of
\* labels, some of them possibly not in the table.
ParInit ==
    /\ par_corpus \in Tables
    /\ par_split_size \in 0..MaxParSize
    /\ par_split_indices \in {None} \cup {Some(x) : x \in SUBSET (0..MaxIndex)}
    /\ par_result = [corpus |-> {}, split |-> {}]
    /\ par_pc = "call"

CallSplitParallelCorpus ==
    /\ UNCHANGED notParVars
    /\ par_pc = "call"
    /\ par_pc' = "returned"
    /\ par_result' \in SplitParallelCorpus(par_corpus, par_split_size, par_split_indices)
    /\ UNCHANGED <<par_corpus, par_split_size, par_split_indices>>

ParNext == CallSplitParallelCorpus

---------------------------------------------------------------------------
(* filter_parallel_corpus, corpus.py:123-132 *)

\* The score at place k (from 0) of the scores of a table in ascending order.
ScoreAt(corpus, k) ==
    CHOOSE v \in {r.score : r \in corpus} :
        /\ Cardinality({r \in corpus : r.score < v}) <= k
        /\ k < Cardinality({r \in corpus : r.score <= v})

\* corpus["score"].quantile(0.1), linear interpolation between the two scores
\* around place 0.1 * (len - 1), in (10 * FloatDen)-ths.
Quantile10(corpus) ==
    LET n == Cardinality(corpus)
        lo == (n - 1) \div 10
        tenths == (n - 1) % 10
    IN IF tenths = 0
       THEN 10 * ScoreAt(corpus, lo)
       ELSE 10 * ScoreAt(corpus, lo)
                + tenths * (ScoreAt(corpus, lo + 1) - ScoreAt(corpus, lo))

Min(a, b) == IF a < b THEN a ELSE b

\* corpus.py:126: the cutoff, in (10 * FloatDen)-ths.
Cutoff10(corpus, threshold) == Min(Quantile10(corpus), 10 * threshold)

\* corpus.py:130: the tables sort_values("score").iloc[k:] can be; rows of
\* the same score are sorted in either order.
DropLowest(corpus, k) ==
    {corpus \ drop :
        drop \in {d \in SUBSET corpus :
                    /\ Cardinality(d) = k
                    /\ \A r \in d : \A kept \in corpus \ d : r.score <= kept.score}}

FilterParallelCorpusOneMore(corpus, threshold) ==
    IF threshold < FloatDen
    THEN IF corpus = {}
         THEN {corpus}
         ELSE {{r \in corpus : 10 * r.score > Cutoff10(corpus, threshold)}}
    ELSE IF threshold < Cardinality(corpus) * FloatDen
    THEN DropLowest(corpus, Min((threshold \div FloatDen) + 1, Cardinality(corpus)))
    ELSE {corpus}

\* The tables filter_parallel_corpus can return; threshold is the
\* score_threshold in FloatDen-ths.
FilterParallelCorpus(corpus, threshold) ==
    IF threshold < FloatDen
    THEN IF corpus = {}
         THEN {corpus}
         ELSE {{r \in corpus : 10 * r.score > Cutoff10(corpus, threshold)}}
    ELSE IF threshold < Cardinality(corpus) * FloatDen
    THEN DropLowest(corpus, threshold \div FloatDen)
    ELSE {corpus}

FltIdle ==
    /\ flt_corpus = {}
    /\ flt_score_threshold = 0
    /\ flt_result = {}
    /\ flt_pc = "idle"

\* A call as preprocess_scripture makes it: with a score_threshold above 0.
FltInit ==
    /\ flt_corpus \in ScoredTables
    /\ flt_score_threshold \in 1..MaxThreshold
    /\ flt_result = {}
    /\ flt_pc = "call"

CallFilterParallelCorpus ==
    /\ UNCHANGED notFltVars
    /\ flt_pc = "call"
    /\ flt_pc' = "returned"
    /\ flt_result' \in FilterParallelCorpus(flt_corpus, flt_score_threshold)
    /\ UNCHANGED <<flt_corpus, flt_score_threshold>>

FltNext == CallFilterParallelCorpus

---------------------------------------------------------------------------
(* add_to_eval_dataset, preprocess.py:209-236 *)

\* The target projects of the model, and the one word each one's text is.
TrgProjects == {"A", "B", "C"}
ProjectText(trg_project) == <<trg_project>>

\* The missing value of a cell, which no text equals.
NaN == <<"NaN">>

\* A dict: a function of its keys.
EmptyDict == [k \in {} |-> {}]
Put(dict, key, value) ==
    [k \in DOMAIN dict \cup {key} |-> IF k = key THEN value ELSE dict[k]]

\* insert_trg_tag, preprocess.py:102-103
insert_trg_tag(trg_iso, sentences) ==
    {[r EXCEPT !.source = <<Tag(trg_iso), " ">> \o @] : r \in sentences}

\* A table of an evaluation data set: its target_<project> columns, named by
\* their projects, and its rows, each with its index label, the book of its
\* vref, its source and a cell for every target column.
\* new_data.rename(columns={"target": f"target_{trg_project}"}), line 229:
Rename(new_data, trg_project) ==
    [columns |-> {trg_project},
     rows |-> {[index |-> r.index, book |-> r.book, source |-> r.source,
                target |-> [c \in {trg_project} |-> r.target]] : r \in new_data}]

EvalIndex(table) == {r.index : r \in table.rows}
RowAt(table, i) == CHOOSE r \in table.rows : r.index = i

\* pair_data.combine_first(other), line 233: the rows and the columns of both;
\* a cell is that of pair_data unless it is missing there, then that of
\* other, and is missing when neither has it.
CombineFirst(pair_data, other) ==
    LET columns == pair_data.columns \cup other.columns
        First(i) == IF i \in EvalIndex(pair_data) THEN RowAt(pair_data, i) ELSE RowAt(other, i)
        Cell(i, c) ==
            IF /\ c \in pair_data.columns
               /\ i \in EvalIndex(pair_data)
               /\ RowAt(pair_data, i).target[c] # NaN
            THEN RowAt(pair_data, i).target[c]
            ELSE IF c \in other.columns /\ i \in EvalIndex(other)
            THEN RowAt(other, i).target[c]
            ELSE NaN
    IN  [columns |-> columns,
         rows |-> {[index |-> i, book |-> First(i).book, source |-> First(i).source,
                    target |-> [c \in columns |-> Cell(i, c)]] :
                      i \in EvalIndex(pair_data) \cup EvalIndex(other)}]

\* pair_data.fillna(""), line 234
FillNa(table) ==
    [table EXCEPT !.rows =
        {[r EXCEPT !.target = [c \in table.columns |->
                                  IF r.target[c] = NaN THEN <<>> ELSE r.target[c]]] :
            r \in table.rows}]

AddToEvalDatasetNoFillNa(src_iso, trg_iso, trg_project, with_trg_tag, dataset, pair_indices, new_data) ==
    IF new_data = {}
    THEN [dataset |-> dataset, pair_indices |-> pair_indices]
    ELSE LET key == <<src_iso, trg_iso>>
             tagged == IF with_trg_tag THEN insert_trg_tag(trg_iso, new_data) ELSE new_data
             renamed == Rename(tagged, trg_project)
             pair_data == IF key \in DOMAIN dataset
                          THEN CombineFirst(dataset[key], renamed)
                          ELSE renamed
         IN  [dataset |-> Put(dataset, key, pair_data),
              pair_indices |-> IF key \in DOMAIN pair_indices
                               THEN pair_indices
                               ELSE Put(pair_indices, key, Index(new_data))]

\* add_to_eval_dataset: the dataset and the pair_indices it leaves.
AddToEvalDataset(src_iso, trg_iso, trg_project, with_trg_tag, dataset, pair_indices, new_data) ==
    IF new_data = {}
    THEN [dataset |-> dataset, pair_indices |-> pair_indices]
    ELSE LET key == <<src_iso, trg_iso>>
             tagged == IF with_trg_tag THEN insert_trg_tag(trg_iso, new_data) ELSE new_data
             renamed == Rename(tagged, trg_project)
             pair_data == IF key \in DOMAIN dataset
                          THEN FillNa(CombineFirst(dataset[key], renamed))
                          ELSE renamed
         IN  [dataset |-> Put(dataset, key, pair_data),
              pair_indices |-> IF key \in DOMAIN pair_indices
                               THEN pair_indices
                               ELSE Put(pair_indices, key, Index(new_data))]

\* The language pair of the calls and the tables a call may bring for a
\* project: any rows of the project over the index labels, the source
\* sentences in one of two wordings.
EvalKeys == {<<"en", "fr">>}
NewData(trg_project) ==
    {{Row(i, 1, source, ProjectText(trg_project), NoScore) : i \in labels} :
        labels \in SUBSET (0..(MaxIndex - 1)), source \in {<<"s">>, <<"m">>}}

EvalIdle ==
    /\ eval_write_trg_tag = FALSE
    /\ eval_dataset = EmptyDict
    /\ eval_pair_indices = EmptyDict
    /\ eval_calls = {}

EvalInit ==
    /\ eval_write_trg_tag \in BOOLEAN
    /\ eval_dataset = EmptyDict
    /\ eval_pair_indices = EmptyDict
    /\ eval_calls = {}

\* One call, for a project not yet added to the language pair.
CallAddToEvalDataset ==
    /\ \E key \in EvalKeys, trg_project \in TrgProjects :
        /\ \A call \in eval_calls : ~(call.key = key /\ call.trg_project = trg_project)
        /\ \E new_data \in NewData(trg_project) :
            LET result == AddToEvalDataset(key[1], key[2], trg_project, eval_write_trg_tag,
                                           eval_dataset, eval_pair_indices, new_data)
            IN  /\ eval_dataset' = result.dataset
                /\ eval_pair_indices' = result.pair_indices
                /\ eval_calls' = eval_calls \cup
                        {[key |-> key, trg_project |-> trg_project, new_data |-> new_data]}
    /\ UNCHANGED eval_write_trg_tag
    /\ UNCHANGED notEvalVars

EvalNext == CallAddToEvalDataset

---------------------------------------------------------------------------
(* preprocess_scripture, preprocess.py:280-460, for one source project.    *)
(* mixed_src is off and no statistics are asked for (args.stats).          *)

\* The source project, en-S, and the words of its sentences.
SrcIso == "en"
SrcProject == "S"
SourceText == <<"s">>

\* The target files, in the order of their paths; get_iso (lines 106-109)
\* reads the iso and the project of a file from its name.
AllTrgFiles ==
    <<[iso |-> "de", project |-> "C"],
      [iso |-> "fr", project |-> "A"],
      [iso |-> "fr", project |-> "B"]>>

\* The files of a set, sorted.
Sorted(files) == SelectSeq(AllTrgFiles, LAMBDA f : f \in files)

\* The books of vref.txt.
Books == {1, 2}

\* include_books and exclude_books, corpus.py:157-162
IncludeBooks(corpus, books) == {r \in corpus : r.book \in books}
ExcludeBooks(corpus, books) == {r \in corpus : r.book \notin books}

BookFilterWithoutExclude(corpus) ==
    IF data_config.corpus_books # {}
    THEN IncludeBooks(corpus, data_config.corpus_books)
    ELSE corpus

\* cur_train after preprocess.py:334-341
BookFilter(corpus) ==
    IF data_config.corpus_books # {}
    THEN IF data_config.corpus_books \cap data_config.test_books # {}
         THEN ExcludeBooks(IncludeBooks(corpus, data_config.corpus_books),
                           data_config.test_books)
         ELSE IncludeBooks(corpus, data_config.corpus_books)
    ELSE IF data_config.test_books # {}
    THEN ExcludeBooks(corpus, data_config.test_books)
    ELSE corpus

\* write_trg_tag as main sets it, preprocess.py:678-683, without a parent.
WriteTrgTag ==
    \/ data_config.mirror
    \/ Cardinality({trg_file_paths[k].iso : k \in 1..Len(trg_file_paths)}
                   \cup {test_only_trg_file_paths[k].iso :
                            k \in 1..Len(test_only_trg_file_paths)}) > 1

\* The table get_scripture_parallel_corpus returns for the source and a
\* target file (line 333): a row for every physical line both have text for.
PairCorpus(trg_file, labels) ==
    {Row(i, vref_books[i], SourceText, ProjectText(trg_file.project), NoScore) :
        i \in labels}

\* The physical lines a target project may have text for: all of them, or
\* all but the first, or all but the last.
ProjectLines ==
    {0..(MaxIndex - 1), 1..(MaxIndex - 1), 0..(MaxIndex - 2)}

\* add_alignment_scores (line 345): a score for every row.
WithScores(corpus, score) == {[r EXCEPT !.score = score[r.index]] : r \in corpus}
AlignmentScores(corpus) == [Index(corpus) -> {0, FloatDen}]

\* drop("score", axis=1), lines 367 and 391
DropScore(corpus) == {[r EXCEPT !.score = NoScore] : r \in corpus}

\* rename(columns={"source": "target", "target": "source"}), lines 404-405
Mirrored(corpus) == {[r EXCEPT !.source = r.target, !.target = r.source] : r \in corpus}

\* pair_indices.get((src_iso, trg_iso), indices)
GetIndices(pair_indices, key, default) ==
    IF key \in DOMAIN pair_indices THEN Some(pair_indices[key]) ELSE default

\* add_to_train_dataset, preprocess.py:239-251, mixed_src off: the rows are
\* appended; each keeps here the index label that ignore_index numbers anew.
AddToTrainDataset(src_project, trg_project, cur_data, cur_train) ==
    Some((IF cur_data.none THEN {} ELSE cur_data.set) \cup
         {[src_project |-> src_project, trg_project |-> trg_project, index |-> r.index,
           book |-> r.book, source |-> r.source, target |-> r.target] : r \in cur_train})

\* test_indices after lines 350-354: drawn once, from the index labels of
\* cur_train without the validation indices when these are to be disjoint.
DrawTestIndices(cur_train) ==
    IF data_config.disjoint_test /\ scripture_test_indices.none
    THEN LET pool == Index(cur_train) \
                        (IF data_config.disjoint_val /\ ~scripture_val_indices.none
                         THEN scripture_val_indices.set ELSE {})
         IN  {Some(drawn) : drawn \in Sample(pool, Min(data_config.test_size, Cardinality(pool)))}
    ELSE {scripture_test_indices}

\* cur_train and cur_test after lines 356-365
TestRows(key, corpus, cur_train, drawn_test_indices) ==
    LET split_indices == GetIndices(pair_test_indices, key, drawn_test_indices)
    IN  IF data_config.test_books # {}
        THEN LET cur_test == IncludeBooks(corpus, data_config.test_books)
             IN  IF data_config.test_size > 0
                 THEN {[cur_train |-> cur_train, cur_test |-> x.split] :
                        x \in SplitParallelCorpus(cur_test, data_config.test_size, split_indices)}
                 ELSE {[cur_train |-> cur_train, cur_test |-> cur_test]}
        ELSE {[cur_train |-> x.corpus, cur_test |-> x.split] :
                x \in SplitParallelCorpus(cur_train, data_config.test_size, split_indices)}

\* cur_train after lines 375-379 and 391
FilteredRows(cur_train) ==
    IF data_config.score_threshold > 0
    THEN {DropScore(kept) : kept \in FilterParallelCorpus(cur_train, data_config.score_threshold)}
    ELSE {DropScore(cur_train)}

DrawValIndicesIgnoringTest(cur_train, drawn_test_indices) ==
    IF data_config.disjoint_val /\ scripture_val_indices.none
    THEN {Some(drawn) : drawn \in Sample(Index(cur_train),
                                        Min(data_config.val_size, Cardinality(cur_train)))}
    ELSE {scripture_val_indices}

\* val_indices after lines 393-397: drawn once, from the index labels of
\* cur_train without the test indices when these are to be disjoint.
DrawValIndices(cur_train, drawn_test_indices) ==
    IF data_config.disjoint_val /\ scripture_val_indices.none
    THEN LET pool == Index(cur_train) \
                        (IF data_config.disjoint_test /\ ~drawn_test_indices.none
                         THEN drawn_test_indices.set ELSE {})
         IN  {Some(drawn) : drawn \in Sample(pool, Min(data_config.val_size, Cardinality(pool)))}
    ELSE {scripture_val_indices}

\* val, pair_val_indices and train after lines 403-421
AddValAndTrain(trg_file, cur_train, cur_val) ==
    LET mirror_val ==
            IF data_config.mirror
            THEN AddToEvalDataset(trg_file.iso, SrcIso, SrcProject, WriteTrgTag,
                                  scripture_val, pair_val_indices, Mirrored(cur_val))
            ELSE [dataset |-> scripture_val, pair_indices |-> pair_val_indices]
        mirror_train ==
            IF data_config.mirror
            THEN AddToTrainDataset(trg_file.project, SrcProject, scripture_train,
                                   IF WriteTrgTag
                                   THEN insert_trg_tag(SrcIso, Mirrored(cur_train))
                                   ELSE Mirrored(cur_train))
            ELSE scripture_train
        added == AddToEvalDataset(SrcIso, trg_file.iso, trg_file.project, WriteTrgTag,
                                  mirror_val.dataset, mirror_val.pair_indices, cur_val)
    IN  [val |-> added.dataset,
         pair_val_indices |-> added.pair_indices,
         train |-> AddToTrainDataset(SrcProject, trg_file.project, mirror_train,
                                     IF WriteTrgTag
                                     THEN insert_trg_tag(trg_file.iso, cur_train)
                                     ELSE cur_train)]

\* The settings of the model: the splits and the mirror without books and
\* without a threshold; the books of the corpus and of the test set; the
\* score threshold, a half, one and two.
SplitConfigs ==
    [test_size : 0..MaxSplit, val_size : 0..MaxSplit,
     disjoint_test : BOOLEAN, disjoint_val : BOOLEAN, mirror : BOOLEAN,
     score_threshold : {0}, corpus_books : {{}}, test_books : {{}}]
BookConfigs ==
    {c \in [test_size : {0, MaxSplit}, val_size : {0, MaxSplit},
            disjoint_test : BOOLEAN, disjoint_val : BOOLEAN, mirror : {FALSE},
            score_threshold : {0}, corpus_books : SUBSET Books, test_books : SUBSET Books] :
        c.corpus_books \cup c.test_books # {}}
ScoreConfigs ==
    [test_size : {0, MaxSplit}, val_size : {0, MaxSplit},
     disjoint_test : BOOLEAN, disjoint_val : BOOLEAN, mirror : {FALSE},
     score_threshold : {FloatDen \div 2, FloatDen, 2 * FloatDen},
     corpus_books : {{}}, test_books : {{}}]

\* What the configuration makes of each target file: to train and test on,
\* to train on only, to test on only, or no part of the experiment.
Roles == [{AllTrgFiles[k] : k \in 1..Len(AllTrgFiles)} -> {"both", "train_only", "test_only", "none"}]

\* vref.txt, book after book.
VrefBooks ==
    {b \in [0..(MaxIndex - 1) -> Books] : \A i \in 1..(MaxIndex - 1) : b[i - 1] <= b[i]}

NoPass ==
    [trg_file |-> [iso |-> "", project |-> ""], is_train_ref |-> FALSE, is_test_ref |-> FALSE,
     pool |-> {}, cur_train |-> {}, cur_val |-> {}, cur_test |-> {},
     val_split_indices |-> None]

PrepIdle ==
    /\ data_config = [test_size |-> 0, val_size |-> 0, disjoint_test |-> FALSE,
                      disjoint_val |-> FALSE, mirror |-> FALSE, score_threshold |-> 0,
                      corpus_books |-> {}, test_books |-> {}]
    /\ vref_books = <<>>
    /\ trg_file_paths = <<>>
    /\ train_only_trg_file_paths = {}
    /\ test_only_trg_file_paths = <<>>
    /\ file_no = 0
    /\ scripture_test_indices = None
    /\ scripture_val_indices = None
    /\ scripture_train = None
    /\ scripture_val = EmptyDict
    /\ scripture_test = EmptyDict
    /\ pair_val_indices = EmptyDict
    /\ pair_test_indices = EmptyDict
    /\ pass = NoPass
    /\ multi_ref_eval = FALSE
    /\ val_src_file = <<>>
    /\ ref_files = <<>>
    /\ prep_pc = "idle"

\* The state at line 322, before the loop. The German project is part of
\* the experiments without books and threshold only.
PrepInit ==
    /\ \E role \in Roles :
        /\ trg_file_paths = Sorted({f \in DOMAIN role : role[f] \in {"both", "train_only"}})
        /\ train_only_trg_file_paths = {f \in DOMAIN role : role[f] = "train_only"}
        /\ test_only_trg_file_paths = Sorted({f \in DOMAIN role : role[f] = "test_only"})
        /\ \/ /\ data_config \in SplitConfigs
              /\ vref_books = [i \in 0..(MaxIndex - 1) |-> 1]
           \/ /\ data_config \in BookConfigs
              /\ vref_books \in VrefBooks
              /\ role[AllTrgFiles[1]] = "none"
           \/ /\ data_config \in ScoreConfigs
              /\ vref_books = [i \in 0..(MaxIndex - 1) |-> 1]
              /\ role[AllTrgFiles[1]] = "none"
    /\ file_no = 0
    /\ scripture_test_indices = None
    /\ scripture_val_indices = None
    /\ scripture_train = None
    /\ scripture_val = EmptyDict
    /\ scripture_test = EmptyDict
    /\ pair_val_indices = EmptyDict
    /\ pair_test_indices = EmptyDict
    /\ pass = NoPass
    /\ multi_ref_eval = FALSE
    /\ val_src_file = <<>>
    /\ ref_files = <<>>
    /\ prep_pc = "loop"

\* One pass of the loop of lines 322-421, for the next target file.
ProcessPair ==
    /\ prep_pc = "loop"
    /\ file_no < Len(trg_file_paths) + Len(test_only_trg_file_paths)
    /\ LET trg_file == (trg_file_paths \o test_only_trg_file_paths)[file_no + 1]
           key == <<SrcIso, trg_file.iso>>
           is_train_ref ==
               \A k \in 1..Len(test_only_trg_file_paths) : test_only_trg_file_paths[k] # trg_file
           is_test_ref == trg_file \notin train_only_trg_file_paths
       IN  \E labels \in ProjectLines :
           LET corpus == PairCorpus(trg_file, labels)
               filtered == BookFilter(corpus)
           IN  \E scored \in (IF is_train_ref /\ data_config.score_threshold > 0
                              THEN {WithScores(filtered, score) : score \in AlignmentScores(filtered)}
                              ELSE {filtered}) :
               \E drawn_test \in (IF is_test_ref THEN DrawTestIndices(scored)
                                  ELSE {scripture_test_indices}) :
               \E rows \in (IF is_test_ref THEN TestRows(key, corpus, scored, drawn_test)
                            ELSE {[cur_train |-> scored, cur_test |-> {}]}) :
               LET test_added ==
                       IF is_test_ref
                       THEN AddToEvalDataset(SrcIso, trg_file.iso, trg_file.project, WriteTrgTag,
                                             scripture_test, pair_test_indices,
                                             DropScore(rows.cur_test))
                       ELSE [dataset |-> scripture_test, pair_indices |-> pair_test_indices]
               IN  /\ scripture_test_indices' = drawn_test
                   /\ scripture_test' = test_added.dataset
                   /\ pair_test_indices' = test_added.pair_indices
                   /\ IF is_train_ref
                      THEN \E cur_train \in FilteredRows(rows.cur_train) :
                           \E drawn_val \in DrawValIndices(cur_train, drawn_test) :
                           LET val_split_indices == GetIndices(pair_val_indices, key, drawn_val)
                           IN  \E split \in SplitParallelCorpus(cur_train, data_config.val_size,
                                                               val_split_indices) :
                               LET added == AddValAndTrain(trg_file, split.corpus, split.split)
                               IN  /\ scripture_val_indices' = drawn_val
                                   /\ scripture_val' = added.val
                                   /\ pair_val_indices' = added.pair_val_indices
                                   /\ scripture_train' = added.train
                                   /\ pass' = [trg_file |-> trg_file,
                                               is_train_ref |-> TRUE,
                                               is_test_ref |-> is_test_ref,
                                               pool |-> DropScore(rows.cur_train),
                                               cur_train |-> split.corpus,
                                               cur_val |-> split.split,
                                               cur_test |-> DropScore(rows.cur_test),
                                               val_split_indices |-> val_split_indices]
                      ELSE /\ UNCHANGED <<scripture_val_indices, scripture_val,
                                          pair_val_indices, scripture_train>>
                           /\ pass' = [trg_file |-> trg_file,
                                       is_train_ref |-> FALSE,
                                       is_test_ref |-> is_test_ref,
                                       pool |-> {},
                                       cur_train |-> {},
                                       cur_val |-> {},
                                       cur_test |-> DropScore(rows.cur_test),
                                       val_split_indices |-> None]
    /\ file_no' = file_no + 1
    /\ UNCHANGED <<data_config, vref_books, trg_file_paths, train_only_trg_file_paths,
                   test_only_trg_file_paths, multi_ref_eval, val_src_file, ref_files,
                   prep_pc>>
    /\ UNCHANGED notPrepVars

\* The language pairs of val in the order val.values() has them, that of
\* their first insertion: the files are handled in the order of their paths
\* (line 323), and a pass inserts the mirrored pair (line 406) before the
\* forward one (line 416).
ValOrder == <<<<"de", SrcIso>>, <<SrcIso, "de">>, <<"fr", SrcIso>>, <<SrcIso, "fr">>>>
ValKeys(val) == SelectSeq(ValOrder, LAMBDA k : k \in DOMAIN val)

\* Line 260: the target columns of a table, in the order of its columns.
ColumnOrder == <<"A", "B", "C", "S">>
TargetColumns(pair_val) == SelectSeq(ColumnOrder, LAMBDA c : c \in pair_val.columns)

\* pair_val.index (line 261): the index labels of a table, in ascending order.
IndexOrder(pair_val) ==
    LET labels == EvalIndex(pair_val)
    IN  CHOOSE o \in [1..Cardinality(labels) -> labels] :
            \A i, j \in 1..Cardinality(labels) : i < j => o[i] < o[j]

\* The rows of val as lines 259 and 261 go through them: every language pair
\* in turn, and its rows in the order of its index.
RECURSIVE ValRowsFrom(_, _)
ValRowsFrom(val, keys) ==
    IF keys = <<>> THEN <<>>
    ELSE LET key == Head(keys)
             order == IndexOrder(val[key])
         IN  [n \in 1..Len(order) |-> [key |-> key, index |-> order[n]]]
                \o ValRowsFrom(val, Tail(keys))
ValRows(val) == ValRowsFrom(val, ValKeys(val))

\* A line of a validation file: the sentence that is encoded and written, and
\* the row of val it is the sentence of.
ValLine(row, sentence) == [key |-> row.key, index |-> row.index, text |-> sentence]

\* Lines 446-447: val.src.txt holds the source column of every table, chained.
ValSrcLines(val) ==
    LET every == ValRows(val)
    IN  [n \in 1..Len(every) |->
            ValLine(every[n], RowAt(val[every[n].key], every[n].index).source)]

\* Lines 262-267, under multi_ref_eval: a row is written to the files 0, 1, ...
\* of its table's target columns, a file being opened when the number of open
\* files is its number.
RECURSIVE WriteMultiRef(_, _, _)
WriteMultiRef(val, every, files) ==
    IF every = <<>> THEN files
    ELSE LET row == Head(every)
             pair_val == val[row.key]
             columns == TargetColumns(pair_val)
             opened == IF Len(columns) > Len(files)
                       THEN files \o [ci \in 1..(Len(columns) - Len(files)) |-> <<>>]
                       ELSE files
             written == [ci \in 1..Len(opened) |->
                            IF ci <= Len(columns)
                            THEN Append(opened[ci],
                                        ValLine(row, Strip(RowAt(pair_val, row.index).target[columns[ci]])))
                            ELSE opened[ci]]
         IN  WriteMultiRef(val, Tail(every), written)

\* Line 271: the target columns of a row that hold text.
ColumnsWithData(pair_val, label) ==
    {c \in pair_val.columns : Strip(RowAt(pair_val, label).target[c]) # <<>>}

\* Lines 268-273, without multi_ref_eval: every row is written to val.trg.txt
\* from one of its columns with data, random.choice taking any of them. A row
\* enters val with the text of its project, so that it has such a column.
RECURSIVE WriteSingleRefFrom(_, _)
WriteSingleRefFrom(val, every) ==
    IF every = <<>> THEN {<<>>}
    ELSE LET row == Head(every)
             pair_val == val[row.key]
         IN  {<<ValLine(row, Strip(RowAt(pair_val, row.index).target[col]))>> \o rest :
                 col \in ColumnsWithData(pair_val, row.index),
                 rest \in WriteSingleRefFrom(val, Tail(every))}
WriteSingleRef(val) == {<<file>> : file \in WriteSingleRefFrom(val, ValRows(val))}

\* write_val_corpora, lines 254-277: the reference files it may leave.
WriteValCorpora(multi, val) ==
    IF multi THEN {WriteMultiRef(val, ValRows(val), <<>>)} ELSE WriteSingleRef(val)

\* Lines 422-460, after the loop: nothing is written when there is no train
\* table (line 425); the validation files are written when val has a table
\* (line 445), with the multi_ref_eval of the configuration (line 301), which
\* nothing before line 448 reads; the data sets are written as they stand.
WriteDataSets ==
    /\ prep_pc = "loop"
    /\ file_no = Len(trg_file_paths) + Len(test_only_trg_file_paths)
    /\ prep_pc' = "done"
    /\ IF ~scripture_train.none /\ DOMAIN scripture_val # {}
       THEN \E multi \in BOOLEAN :
              /\ multi_ref_eval' = multi
              /\ val_src_file' = ValSrcLines(scripture_val)
              /\ ref_files' \in WriteValCorpora(multi, scripture_val)
       ELSE UNCHANGED <<multi_ref_eval, val_src_file, ref_files>>
    /\ UNCHANGED <<data_config, vref_books, trg_file_paths, train_only_trg_file_paths,
                   test_only_trg_file_paths, file_no, scripture_test_indices,
                   scripture_val_indices, scripture_train, scripture_val, scripture_test,
                   pair_val_indices, pair_test_indices, pass>>
    /\ UNCHANGED notPrepVars

PrepNext == ProcessPair \/ WriteDataSets

---------------------------------------------------------------------------
(* The canon table and its two lookups, canon.py:1-141. A book id is the   *)
(* sequence of its characters.                                             *)

\* canon.py:1-125
ALL_BOOK_IDS ==
    <<
      <<"G", "E", "N">>, <<"E", "X", "O">>, <<"L", "E", "V">>, <<"N", "U", "M">>,
      <<"D", "E", "U">>, <<"J", "O", "S">>, <<"J", "D", "G">>, <<"R", "U", "T">>,
      <<"1", "S", "A">>, <<"2", "S", "A">>, <<"1", "K", "I">>, <<"2", "K", "I">>,
      <<"1", "C", "H">>, <<"2", "C", "H">>, <<"E", "Z", "R">>, <<"N", "E", "H">>,
      <<"E", "S", "T">>, <<"J", "O", "B">>, <<"P", "S", "A">>, <<"P", "R", "O">>,
      <<"E", "C", "C">>, <<"S", "N", "G">>, <<"I", "S", "A">>, <<"J", "E", "R">>,
      <<"L", "A", "M">>, <<"E", "Z", "K">>, <<"D", "A", "N">>, <<"H", "O", "S">>,
      <<"J", "O", "L">>, <<"A", "M", "O">>, <<"O", "B", "A">>, <<"J", "O", "N">>,
      <<"M", "I", "C">>, <<"N", "A", "M">>, <<"H", "A", "B">>, <<"Z", "E", "P">>,
      <<"H", "A", "G">>, <<"Z", "E", "C">>, <<"M", "A", "L">>, <<"M", "A", "T">>,
      <<"M", "R", "K">>, <<"L", "U", "K">>, <<"J", "H", "N">>, <<"A", "C", "T">>,
      <<"R", "O", "M">>, <<"1", "C", "O">>, <<"2", "C", "O">>, <<"G", "A", "L">>,
      <<"E", "P", "H">>, <<"P", "H", "P">>, <<"C", "O", "L">>, <<"1", "T", "H">>,
      <<"2", "T", "H">>, <<"1", "T", "I">>, <<"2", "T", "I">>, <<"T", "I", "T">>,
      <<"P", "H", "M">>, <<"H", "E", "B">>, <<"J", "A", "S">>, <<"1", "P", "E">>,
      <<"2", "P", "E">>, <<"1", "J", "N">>, <<"2", "J", "N">>, <<"3", "J", "N">>,
      <<"J", "U", "D">>, <<"R", "E", "V">>, <<"T", "O", "B">>, <<"J", "D", "T">>,
      <<"E", "S", "G">>, <<"W", "I", "S">>, <<"S", "I", "R">>, <<"B", "A", "R">>,
      <<"L", "J", "E">>, <<"S", "3", "Y">>, <<"S", "U", "S">>, <<"B", "E", "L">>,
      <<"1", "M", "A">>, <<"2", "M", "A">>, <<"3", "M", "A">>, <<"4", "M", "A">>,
      <<"1", "E", "S">>, <<"2", "E", "S">>, <<"M", "A", "N">>, <<"P", "S", "2">>,
      <<"O", "D", "A">>, <<"P", "S", "S">>, <<"J", "S", "A">>, <<"J", "D", "B">>,
      <<"T", "B", "S">>, <<"S", "S", "T">>, <<"D", "N", "T">>, <<"B", "L", "T">>,
      <<"X", "X", "A">>, <<"X", "X", "B">>, <<"X", "X", "C">>, <<"X", "X", "D">>,
      <<"X", "X", "E">>, <<"X", "X", "F">>, <<"X", "X", "G">>, <<"F", "R", "T">>,
      <<"B", "A", "K">>, <<"O", "T", "H">>, <<"3", "E", "S">>, <<"E", "Z", "A">>,
      <<"5", "E", "Z">>, <<"6", "E", "Z">>, <<"I", "N", "T">>, <<"C", "N", "C">>,
      <<"G", "L", "O">>, <<"T", "D", "X">>, <<"N", "D", "X">>, <<"D", "A", "G">>,
      <<"P", "S", "3">>, <<"2", "B", "A">>, <<"L", "B", "A">>, <<"J", "U", "B">>,
      <<"E", "N", "O">>, <<"1", "M", "Q">>, <<"2", "M", "Q">>, <<"3", "M", "Q">>,
      <<"R", "E", "P">>, <<"4", "B", "A">>, <<"L", "A", "O">>
    >>

\* The letters, for str.upper() and for the spellings of an id.
LowerCase == <<"a", "b", "c", "d", "e", "f", "g", "h", "i", "j", "k", "l", "m", "n", "o", "p", "q", "r", "s", "t", "u", "v", "w", "x", "y", "z">>
UpperCase == <<"A", "B", "C", "D", "E", "F", "G", "H", "I", "J", "K", "L", "M", "N", "O", "P", "Q", "R", "S", "T", "U", "V", "W", "X", "Y", "Z">>

UpperChar(c) ==
    IF \E k \in 1..Len(LowerCase) : LowerCase[k] = c
    THEN UpperCase[CHOOSE k \in 1..Len(LowerCase) : LowerCase[k] = c]
    ELSE c
LowerChar(c) ==
    IF \E k \in 1..Len(UpperCase) : UpperCase[k] = c
    THEN LowerCase[CHOOSE k \in 1..Len(UpperCase) : UpperCase[k] = c]
    ELSE c

\* id.upper()
Upper(id) == [k \in 1..Len(id) |-> UpperChar(id[k])]

\* What a call leaves: the value returned or the ValueError raised.
Returned(value) == [raised |-> FALSE, value |-> value, message |-> ""]
Raised(message) == [raised |-> TRUE, value |-> <<>>, message |-> message]
RaisedNumber(message) == [raised |-> TRUE, value |-> 0, message |-> message]

\* BOOK_NUMBERS, canon.py:127: the 1-based place of each id of the table.
InBookNumbers(id) == \E k \in 1..Len(ALL_BOOK_IDS) : ALL_BOOK_IDS[k] = id
BOOK_NUMBERS(id) == CHOOSE k \in 1..Len(ALL_BOOK_IDS) : ALL_BOOK_IDS[k] = id

BookNumberToIdUpToLen(number) ==
    IF number < 1 \/ number > Len(ALL_BOOK_IDS)
    THEN Raised("The book number is invalid.")
    ELSE Returned(ALL_BOOK_IDS[number])

\* book_number_to_id, canon.py:130-134. ALL_BOOK_IDS[index] of the source is
\* the entry at place index + 1 = number here.
BookNumberToId(number) ==
    IF number < 1 \/ number >= Len(ALL_BOOK_IDS)
    THEN Raised("The book number is invalid.")
    ELSE Returned(ALL_BOOK_IDS[number])

\* book_id_to_number, canon.py:137-141
BookIdToNumber(id) ==
    IF InBookNumbers(Upper(id))
    THEN Returned(BOOK_NUMBERS(Upper(id)))
    ELSE RaisedNumber("The book Id is invalid.")

\* The numbers of the calls: every place of the table and NumberMargin
\* numbers before the first and after the last.
BookNumbers == (1 - NumberMargin)..(Len(ALL_BOOK_IDS) + NumberMargin)

\* The ids of the calls: every id of the table in every spelling of upper
\* and lower case, and some ids that are not in the table.
Spelling(id, lowered) ==
    [k \in 1..Len(id) |-> IF k \in lowered THEN LowerChar(id[k]) ELSE id[k]]
BookIds ==
    {Spelling(ALL_BOOK_IDS[n], lowered) :
        n \in 1..Len(ALL_BOOK_IDS), lowered \in SUBSET (1..3)}
    \cup {<<>>, <<"G", "E">>, <<"G", "E", "N", "X">>, <<"X", "Y", "Z">>, <<"g", "e", "m">>}

CanonIdle ==
    /\ canon_call = "idle"
    /\ book_number = 0
    /\ book_id = <<>>
    /\ number_to_id = Raised("")
    /\ id_to_number = RaisedNumber("")
    /\ canon_pc = "idle"

\* A call of one of the two functions.
CanonInit ==
    /\ \/ /\ canon_call = "book_number_to_id"
          /\ book_number \in BookNumbers
          /\ book_id = <<>>
       \/ /\ canon_call = "book_id_to_number"
          /\ book_number = 0
          /\ book_id \in BookIds
    /\ number_to_id = Raised("")
    /\ id_to_number = RaisedNumber("")
    /\ canon_pc = "call"

\* book_number_to_id(number)
CallBookNumberToId ==
    /\ canon_pc = "call"
    /\ canon_call = "book_number_to_id"
    /\ number_to_id' = BookNumberToId(book_number)
    /\ canon_pc' = IF BookNumberToId(book_number).raised THEN "raised" ELSE "returned"
    /\ UNCHANGED <<canon_call, book_number, book_id, id_to_number>>
    /\ UNCHANGED notCanonVars

\* book_id_to_number(id)
CallBookIdToNumber ==
    /\ canon_pc = "call"
    /\ canon_call = "book_id_to_number"
    /\ id_to_number' = BookIdToNumber(book_id)
    /\ canon_pc' = IF BookIdToNumber(book_id).raised THEN "raised" ELSE "returned"
    /\ UNCHANGED <<canon_call, book_number, book_id, number_to_id>>
    /\ UNCHANGED notCanonVars

\* book_id_to_number(book_number_to_id(number)): the id returned, looked up.
NumberOfReturnedId ==
    /\ canon_pc = "returned"
    /\ canon_call = "book_number_to_id"
    /\ id_to_number' = BookIdToNumber(number_to_id.value)
    /\ canon_pc' = "round_trip"
    /\ UNCHANGED <<canon_call, book_number, book_id, number_to_id>>
    /\ UNCHANGED notCanonVars

\* book_number_to_id(book_id_to_number(id)): the number returned, looked up.
IdOfReturnedNumber ==
    /\ canon_pc = "returned"
    /\ canon_call = "book_id_to_number"
    /\ number_to_id' = BookNumberToId(id_to_number.value)
    /\ canon_pc' = "round_trip"
    /\ UNCHANGED <<canon_call, book_number, book_id, id_to_number>>
    /\ UNCHANGED notCanonVars

CanonNext ==
    CallBookNumberToId \/ CallBookIdToNumber \/ NumberOfReturnedId \/ IdOfReturnedNumber

---------------------------------------------------------------------------
(* process_alignments and align_set, bulk_align.py:16-74. A path under     *)
(* output_dir is the pair of a target's stem, which names its directory,   *)
(* and a file name.                                                        *)

\* The stems of the target files; main (line 104) takes them from one
\* directory, so that they differ.
TrgStems == <<"a", "b", "c", "d", "e">>

\* The processors a machine may have.
MaxCpu == 4

\* The targets of a list of paths.
Stems(paths) == {paths[n] : n \in DOMAIN paths}

\* f_dir (lines 53, 69) and the files align_set leaves in it.
Directory(t) == <<t, ".">>
SyncedFiles(t) == {<<t, "source">>, <<t, "target">>}
SymAlignPath(t) == <<t, "sym-align.txt">>
ScoresPath(t) == <<t, "alignment.scores.txt">>

\* Line 61
CpuNum == cpu_count \div 2

\* Pool.map_async (line 63) cuts the units into chunks: four for every
\* process, of one size, rounded up.
ChunkSize(n, processes) ==
    IF n = 0 THEN 0
    ELSE IF n % (processes * 4) > 0
    THEN n \div (processes * 4) + 1
    ELSE n \div (processes * 4)

RECURSIVE Chunks(_, _)
Chunks(units, size) ==
    IF units = <<>> THEN <<>>
    ELSE IF Len(units) <= size THEN <<units>>
    ELSE <<SubSeq(units, 1, size)>> \o Chunks(SubSeq(units, size + 1, Len(units)), size)

\* Lines 55 and 71: the target has no alignment.scores.txt yet.
NeedsAlignment(t) == ScoresPath(t) \notin align_fs

\* A process that is in no unit.
NoUnit == [chunk |-> <<>>, stage |-> "idle"]

\* The files a unit writes, each with the unit.
WrittenBy(t, paths) == {[unit |-> t, path |-> p] : p \in paths}

AlignIdle ==
    /\ trg_paths = <<>>
    /\ multiprocess = FALSE
    /\ cpu_count = 0
    /\ align_fails = {}
    /\ had_scores = {}
    /\ align_fs = {}
    /\ align_writes = {}
    /\ align_runs = <<>>
    /\ all_kwargs = <<>>
    /\ task_queue = <<>>
    /\ pool_workers = <<>>
    /\ number_left = 0
    /\ map_failed = FALSE
    /\ seq_rest = <<>>
    /\ seq_stage = "idle"
    /\ align_pc = "idle"

\* The call of process_alignments: some targets have their scores from an
\* earlier call, with the other files of their directory.
AlignInit ==
    /\ trg_paths = TrgStems
    /\ multiprocess \in BOOLEAN
    /\ cpu_count \in 1..MaxCpu
    /\ align_fails \in SUBSET Stems(TrgStems)
    /\ had_scores \in SUBSET Stems(TrgStems)
    /\ align_fs = UNION {{Directory(t), SymAlignPath(t), ScoresPath(t)} \cup SyncedFiles(t) :
                            t \in had_scores}
    /\ align_writes = {}
    /\ align_runs = [t \in Stems(TrgStems) |-> 0]
    /\ all_kwargs = <<>>
    /\ task_queue = <<>>
    /\ pool_workers = <<>>
    /\ number_left = 0
    /\ map_failed = FALSE
    /\ seq_rest = TrgStems
    /\ seq_stage = "check"
    /\ align_pc = "start"

\* Lines 49-60: the units of the targets without scores, in the order of
\* trg_paths; every target gets its directory.
CollectUnits ==
    /\ align_pc = "start"
    /\ multiprocess
    /\ all_kwargs' = SelectSeq(trg_paths, NeedsAlignment)
    /\ align_fs' = align_fs \cup {Directory(t) : t \in Stems(trg_paths)}
    /\ align_pc' = "pool"
    /\ UNCHANGED <<trg_paths, multiprocess, cpu_count, align_fails, had_scores,
                   align_writes, align_runs, task_queue, pool_workers, number_left,
                   map_failed, seq_rest, seq_stage>>
    /\ UNCHANGED notAlignVars

\* Lines 61-63: Pool raises ValueError for less than one process; map_async
\* hands the chunks of the units to the pool.
OpenPool ==
    /\ align_pc = "pool"
    /\ IF CpuNum < 1
       THEN /\ align_pc' = "raised"
            /\ UNCHANGED <<task_queue, pool_workers, number_left>>
       ELSE LET chunks == Chunks(all_kwargs, ChunkSize(Len(all_kwargs), CpuNum))
            IN  /\ task_queue' = chunks
                /\ number_left' = Len(chunks)
                /\ pool_workers' = [w \in 1..CpuNum |-> NoUnit]
                /\ align_pc' = "get"
    /\ UNCHANGED <<trg_paths, multiprocess, cpu_count, align_fails, had_scores, align_fs,
                   align_writes, align_runs, all_kwargs, map_failed, seq_rest, seq_stage>>
    /\ UNCHANGED notAlignVars

\* A worker process that is in no chunk takes the next one.
TakeChunk ==
    /\ align_pc = "get"
    /\ task_queue # <<>>
    /\ \E w \in DOMAIN pool_workers :
          /\ pool_workers[w] = NoUnit
          /\ pool_workers' = [pool_workers EXCEPT ![w] =
                                 [chunk |-> Head(task_queue), stage |-> "check"]]
    /\ task_queue' = Tail(task_queue)
    /\ UNCHANGED <<trg_paths, multiprocess, cpu_count, align_fails, had_scores, align_fs,
                   align_writes, align_runs, all_kwargs, number_left, map_failed,
                   seq_rest, seq_stage, align_pc>>
    /\ UNCHANGED notAlignVars

\* align_worker (lines 16-17) on the next unit of a worker's chunk, through
\* line 34 of align_set: it raises, or the directory has the two synced files.
\* The worker runs the units of a chunk in turn, so that a unit that raises
\* ends its chunk.
WorkerStartsUnit ==
    /\ align_pc = "get"
    /\ \E w \in DOMAIN pool_workers :
          LET t == Head(pool_workers[w].chunk) IN
          /\ pool_workers[w].stage = "check"
          /\ align_runs' = [align_runs EXCEPT ![t] = @ + 1]
          /\ IF t \in align_fails
             THEN /\ pool_workers' = [pool_workers EXCEPT ![w] = NoUnit]
                  /\ map_failed' = TRUE
                  /\ number_left' = number_left - 1
                  /\ UNCHANGED <<align_fs, align_writes>>
             ELSE /\ pool_workers' = [pool_workers EXCEPT ![w].stage = "score"]
                  /\ align_fs' = align_fs \cup {Directory(t)} \cup SyncedFiles(t)
                  /\ align_writes' = align_writes \cup WrittenBy(t, SyncedFiles(t))
                  /\ UNCHANGED <<map_failed, number_left>>
    /\ UNCHANGED <<trg_paths, multiprocess, cpu_count, align_fails, had_scores,
                   all_kwargs, task_queue, seq_rest, seq_stage, align_pc>>
    /\ UNCHANGED notAlignVars

\* Lines 36-43 of align_set in a worker: the alignment and the scores are
\* written; the chunk ends with its last unit.
WorkerEndsUnit ==
    /\ align_pc = "get"
    /\ \E w \in DOMAIN pool_workers :
          LET t == Head(pool_workers[w].chunk)
              rest == Tail(pool_workers[w].chunk)
          IN
          /\ pool_workers[w].stage = "score"
          /\ align_fs' = align_fs \cup {SymAlignPath(t), ScoresPath(t)}
          /\ align_writes' = align_writes \cup WrittenBy(t, {SymAlignPath(t), ScoresPath(t)})
          /\ IF rest = <<>>
             THEN /\ pool_workers' = [pool_workers EXCEPT ![w] = NoUnit]
                  /\ number_left' = number_left - 1
             ELSE /\ pool_workers' = [pool_workers EXCEPT ![w] =
                                         [chunk |-> rest, stage |-> "check"]]
                  /\ UNCHANGED number_left
    /\ UNCHANGED <<trg_paths, multiprocess, cpu_count, align_fails, had_scores,
                   align_runs, all_kwargs, task_queue, map_failed, seq_rest, seq_stage,
                   align_pc>>
    /\ UNCHANGED notAlignVars

\* Lines 64-66: result.get() waits until every chunk has ended, and raises
\* what a chunk has raised.
GetResult ==
    /\ align_pc = "get"
    /\ number_left = 0
    /\ align_pc' = IF map_failed THEN "raised" ELSE "returned"
    /\ UNCHANGED <<trg_paths, multiprocess, cpu_count, align_fails, had_scores, align_fs,
                   align_writes, align_runs, all_kwargs, task_queue, pool_workers,
                   number_left, map_failed, seq_rest, seq_stage>>
    /\ UNCHANGED notAlignVars

\* Lines 68-74 with lines 21-34 of align_set: the next target is passed over
\* when it has its scores; else align_set is called, and raises or writes
\* the two synced files.
SequentialStartsUnit ==
    /\ align_pc = "start"
    /\ ~multiprocess
    /\ seq_stage = "check"
    /\ seq_rest # <<>>
    /\ LET t == Head(seq_rest) IN
       IF ~NeedsAlignment(t)
       THEN /\ seq_rest' = Tail(seq_rest)
            /\ align_fs' = align_fs \cup {Directory(t)}
            /\ UNCHANGED <<align_writes, align_runs, seq_stage, align_pc>>
       ELSE /\ align_runs' = [align_runs EXCEPT ![t] = @ + 1]
            /\ IF t \in align_fails
               THEN /\ align_pc' = "raised"
                    /\ align_fs' = align_fs \cup {Directory(t)}
                    /\ UNCHANGED <<align_writes, seq_rest, seq_stage>>
               ELSE /\ seq_stage' = "score"
                    /\ align_fs' = align_fs \cup {Directory(t)} \cup SyncedFiles(t)
                    /\ align_writes' = align_writes \cup WrittenBy(t, SyncedFiles(t))
                    /\ UNCHANGED <<seq_rest, align_pc>>
    /\ UNCHANGED <<trg_paths, multiprocess, cpu_count, align_fails, had_scores,
                   all_kwargs, task_queue, pool_workers, number_left, map_failed>>
    /\ UNCHANGED notAlignVars

\* Lines 36-43 of align_set in the sequential loop.
SequentialEndsUnit ==
    /\ align_pc = "start"
    /\ seq_stage = "score"
    /\ LET t == Head(seq_rest) IN
       /\ align_fs' = align_fs \cup {SymAlignPath(t), ScoresPath(t)}
       /\ align_writes' = align_writes \cup WrittenBy(t, {SymAlignPath(t), ScoresPath(t)})
    /\ seq_rest' = Tail(seq_rest)
    /\ seq_stage' = "check"
    /\ UNCHANGED <<trg_paths, multiprocess, cpu_count, align_fails, had_scores,
                   align_runs, all_kwargs, task_queue, pool_workers, number_left,
                   map_failed, align_pc>>
    /\ UNCHANGED notAlignVars

\* The end of the loop of line 68.
SequentialReturns ==
    /\ align_pc = "start"
    /\ ~multiprocess
    /\ seq_stage = "check"
    /\ seq_rest = <<>>
    /\ align_pc' = "returned"
    /\ UNCHANGED <<trg_paths, multiprocess, cpu_count, align_fails, had_scores, align_fs,
                   align_writes, align_runs, all_kwargs, task_queue, pool_workers,
                   number_left, map_failed, seq_rest, seq_stage>>
    /\ UNCHANGED notAlignVars

AlignNext ==
    \/ CollectUnits
    \/ OpenPool
    \/ TakeChunk
    \/ WorkerStartsUnit
    \/ WorkerEndsUnit
    \/ GetResult
    \/ SequentialStartsUnit
    \/ SequentialEndsUnit
    \/ SequentialReturns

---------------------------------------------------------------------------
(* Specifications: each runs one part of the program, the others idle. *)

CorpusStart == CorpusInit /\ SplitIdle /\ BuildIdle /\ ParIdle /\ FltIdle /\ EvalIdle /\ PrepIdle /\ CanonIdle /\ AlignIdle
SpecCorpus == CorpusStart /\ [][CorpusNext]_vars

SplitStart == SplitInit /\ CorpusIdle /\ BuildIdle /\ ParIdle /\ FltIdle /\ EvalIdle /\ PrepIdle /\ CanonIdle /\ AlignIdle
SpecSplit == SplitStart /\ [][SplitNext]_vars

BuildStart == BuildInit /\ CorpusIdle /\ SplitIdle /\ ParIdle /\ FltIdle /\ EvalIdle /\ PrepIdle /\ CanonIdle /\ AlignIdle
SpecBuild == BuildStart /\ [][BuildNext]_vars

ParStart == ParInit /\ CorpusIdle /\ SplitIdle /\ BuildIdle /\ FltIdle /\ EvalIdle /\ PrepIdle /\ CanonIdle /\ AlignIdle
SpecSplitParallel == ParStart /\ [][ParNext]_vars

FltStart == FltInit /\ CorpusIdle /\ SplitIdle /\ BuildIdle /\ ParIdle /\ EvalIdle /\ PrepIdle /\ CanonIdle /\ AlignIdle
SpecFilter == FltStart /\ [][FltNext]_vars

EvalStart == EvalInit /\ CorpusIdle /\ SplitIdle /\ BuildIdle /\ ParIdle /\ FltIdle /\ PrepIdle /\ CanonIdle /\ AlignIdle
SpecEval == EvalStart /\ [][EvalNext]_vars

PrepStart == PrepInit /\ CorpusIdle /\ SplitIdle /\ BuildIdle /\ ParIdle /\ FltIdle /\ EvalIdle /\ CanonIdle /\ AlignIdle
SpecPrep == PrepStart /\ [][PrepNext]_vars

CanonStart == CanonInit /\ CorpusIdle /\ SplitIdle /\ BuildIdle /\ ParIdle /\ FltIdle /\ EvalIdle /\ PrepIdle /\ AlignIdle
SpecCanon == CanonStart /\ [][CanonNext]_vars

AlignStart == AlignInit /\ CorpusIdle /\ SplitIdle /\ BuildIdle /\ ParIdle /\ FltIdle /\ EvalIdle /\ PrepIdle /\ CanonIdle
SpecAlign == AlignStart /\ [][AlignNext]_vars

---------------------------------------------------------------------------
(* Properties of get_scripture_parallel_corpus, under SpecCorpus *)

\* Physical line k (1-based) as the loop sees it.
SrcLine(k) == Strip(lines[k][1])
TrgLine(k) == Strip(lines[k][2])
VrefLine(k) == FromString(vref_file[k])
IsRangeLine(k) == SrcLine(k) = RANGE \/ TrgLine(k) = RANGE

\* The physical line a step has just read, as the loop sees it.
NewSrcLine == Strip(lines'[Len(lines')][1])
NewTrgLine == Strip(lines'[Len(lines')][2])
NewVref == FromString(vref_file[Len(lines')])

\* The loop body has read one more physical line without raising.
LineAccepted == pc = "loop" /\ pc' = "loop" /\ index' = index + 1

\* The range from the first verse of reference last through reference vref.
MergedThrough(last, vref) ==
    [book_num |-> last.book_num, chapter_num |-> last.chapter_num,
     verse_num |-> last.verse_num, end_verse |-> vref.verse_num]

\* No row is added, and the last row's reference is extended through the new
\* line's reference when both lie in a chapter of the same number.
RangeLineExtends ==
    /\ indices' = indices
    /\ Len(vrefs') = Len(vrefs)
    /\ Len(src_sentences') = Len(src_sentences)
    /\ Len(trg_sentences') = Len(trg_sentences)
    /\ \A i \in 1..(Len(vrefs) - 1) :
          /\ vrefs'[i] = vrefs[i]
          /\ src_sentences'[i] = src_sentences[i]
          /\ trg_sentences'[i] = trg_sentences[i]
    /\ NewVref.chapter_num = Last(vrefs).chapter_num
          => Last(vrefs') = MergedThrough(Last(vrefs), NewVref)

\* C1: a physical line whose source and target are both <range> adds no row
\* and leaves every cell as it is; when its reference has the chapter number
\* of the last accepted row's reference, that reference becomes the range
\* from its first verse through the new line's verse.
C1_BothRangeExtendsLastRow ==
    [][(LineAccepted /\ NewSrcLine = RANGE /\ NewTrgLine = RANGE)
        => /\ RangeLineExtends
           /\ src_sentences' = src_sentences
           /\ trg_sentences' = trg_sentences]_vars

\* Verses 1..2 of one chapter stand in one row: line 2 was a both-range line.
C1_Witness ==
    /\ pc = "loop"
    /\ index = 2
    /\ SrcLine(2) = RANGE /\ TrgLine(2) = RANGE
    /\ Len(vrefs) = 1
    /\ vrefs[1].verse_num = 1 /\ vrefs[1].end_verse = 2

\* The text cell after line is appended to it: joined by one blank when the
\* cell holds text, the line alone when it holds none.
Joined(cell, line) ==
    IF line = <<>> THEN cell
    ELSE IF cell = <<>> THEN line
    ELSE cell \o <<" ">> \o line

\* The scenario of the specification, with "s" for a source verse and "t" for
\* a target verse: vref GEN 1:1, 1:2, 1:3; src s, <range>, s; trg t, t, t.
ScenarioLines ==
    << <<(<<"s", "\n">>), (<<"t", "\n">>)>>,
       <<(<<"<range>", "\n">>), (<<"t", "\n">>)>>,
       <<(<<"s", "\n">>), (<<"t", "\n">>)>> >>

ScenarioTable ==
    << [index |-> 0,
        vref |-> [book_num |-> 1, chapter_num |-> 1, verse_num |-> 1, end_verse |-> 2],
        source |-> <<"s">>, target |-> <<"t", " ", "t">>],
       [index |-> 2,
        vref |-> [book_num |-> 1, chapter_num |-> 1, verse_num |-> 3, end_verse |-> 0],
        source |-> <<"s">>, target |-> <<"t">>] >>

IsScenario ==
    /\ pc = "returned"
    /\ lines = ScenarioLines
    /\ \A k \in 1..3 : vref_file[k] = <<1, 1, k>>

\* C2: a line with <range> on exactly one side adds no row; the last row's
\* reference is extended as for a both-range line, and the other side's text
\* is joined onto the last row's cell of that same side (the target cell for
\* a source marker, the source cell for a target marker), with one blank only
\* when the cell already holds text. The scenario returns its two rows.
C2_OneSidedRangeAppendsText ==
    /\ [][(LineAccepted /\ NewSrcLine = RANGE /\ NewTrgLine # RANGE)
            => /\ RangeLineExtends
               /\ src_sentences' = src_sentences
               /\ Last(trg_sentences') = Joined(Last(trg_sentences), NewTrgLine)]_vars
    /\ [][(LineAccepted /\ NewTrgLine = RANGE /\ NewSrcLine # RANGE)
            => /\ RangeLineExtends
               /\ trg_sentences' = trg_sentences
               /\ Last(src_sentences') = Joined(Last(src_sentences), NewSrcLine)]_vars
    /\ [](IsScenario => DataFrame = ScenarioTable)

\* The scenario has returned.
C2_Witness == IsScenario /\ Len(indices) = 2

\* C3: a range line in a chapter of another number than the last accepted
\* row's reference raises nothing, adds no row and leaves every reference as
\* it is.
C3_OtherChapterNotMerged ==
    [][(/\ pc = "loop"
        /\ Len(lines') = Len(lines) + 1
        /\ vrefs # <<>>
        /\ (NewSrcLine = RANGE \/ NewTrgLine = RANGE)
        /\ NewVref.chapter_num # Last(vrefs).chapter_num)
        => /\ pc' = "loop"
           /\ index' = index + 1
           /\ vrefs' = vrefs
           /\ indices' = indices]_vars

\* Line 3 was a range line at chapter 2, after a row of chapter 1 that line 2
\* had extended to verses 1-2.
C3_Witness ==
    /\ pc = "loop"
    /\ index = 3
    /\ IsRangeLine(2) /\ IsRangeLine(3)
    /\ vref_file[3][2] = 2
    /\ Len(vrefs) = 1
    /\ vrefs[1].chapter_num = 1 /\ vrefs[1].end_verse = 2

\* C4: in the accumulated lists and in the returned table, the index of every
\* row is the 0-based number of a physical line that is no range line and
\* whose reference starts the row's reference, and the indices increase
\* strictly from row to row, in both modes.
C4_IndexIsPhysicalLine ==
    pc \in {"loop", "returned"} =>
        /\ \A i \in 1..Len(indices) :
              /\ indices[i] + 1 \in 1..Len(lines)
              /\ ~IsRangeLine(indices[i] + 1)
              /\ Simplify(vrefs[i]) = VrefLine(indices[i] + 1)
        /\ \A i, j \in 1..Len(indices) : i < j => indices[i] < indices[j]

\* A returned table whose only row was created by the third physical line,
\* after a dropped row and a range line.
C4_Witness ==
    /\ pc = "returned"
    /\ remove_empty_sentences
    /\ Len(lines) = 3
    /\ IsRangeLine(2)
    /\ indices = <<2>>

Rows(t) == {t[i] : i \in 1..Len(t)}

\* The loop ends and the call returns.
Returns == pc = "loop" /\ pc' = "returned"

\* The table returned by this step and the table the other mode returns on
\* the same input.
ReturnedWith(flag) == IF remove_empty_sentences = flag THEN DataFrame' ELSE Result(flag)

\* C5 (as amended): on the same input the rows returned with
\* remove_empty_sentences=True are a subset of the rows returned with
\* remove_empty_sentences=False, each with the same index, reference, source
\* and target; the two tables are equal when no row has an empty side.
C5_RemovedRowsSubset ==
    [][Returns => Rows(ReturnedWith(TRUE)) \subseteq Rows(ReturnedWith(FALSE))]_vars

\* C5 as stated: the subset is strict for any input.
C5_StrictSubset ==
    [][Returns => /\ Rows(ReturnedWith(TRUE)) \subseteq Rows(ReturnedWith(FALSE))
                  /\ Rows(ReturnedWith(TRUE)) # Rows(ReturnedWith(FALSE))]_vars

\* Returned with removal: one row was dropped and one survived.
C5_Witness ==
    /\ pc = "returned"
    /\ remove_empty_sentences
    /\ Len(lines) = 2
    /\ ~IsRangeLine(1) /\ ~IsRangeLine(2)
    /\ Len(indices) = 1

\* The physical lines read that are no range lines.
NonRangeLines == {k \in 1..Len(lines) : ~IsRangeLine(k)}

\* C6 (as amended): with remove_empty_sentences=False the returned table has
\* one row per non-range line; with remove_empty_sentences=True it has one
\* row per non-range line less the rows whose source or target is empty
\* after range merging.
C6_RowCount ==
    [][Returns =>
        Len(indices') =
            Cardinality(NonRangeLines)
            - (IF remove_empty_sentences
               THEN Cardinality({i \in 1..Len(indices) :
                                    src_sentences[i] = <<>> \/ trg_sentences[i] = <<>>})
               ELSE 0)]_vars

\* C6 as stated: the returned table has one row per non-range line.
C6_RowCountEqualsNonRangeLines ==
    pc = "returned" => Len(indices) = Cardinality(NonRangeLines)

\* Returned without removal: three rows for three non-range lines, one of
\* them blanked, and a range line.
C6_Witness ==
    /\ pc = "returned"
    /\ ~remove_empty_sentences
    /\ Len(lines) = 4
    /\ Cardinality(NonRangeLines) = 3
    /\ Len(indices) = 3
    /\ \E i \in 1..3 : src_sentences[i] = <<>> /\ trg_sentences[i] = <<>>

---------------------------------------------------------------------------
(* Properties of split_corpus, under SpecSplit *)

\* range(corpus_size) minus used_indices
Candidates == {i \in 0..(corpus_size - 1) : i \notin used_indices}

\* C7: split_corpus returns None exactly when the number of indices asked
\* for is at least the size of range(corpus_size) minus used_indices, and
\* otherwise a set of exactly that many indices, all of that population.
C7_SplitCorpusResult ==
    split_pc = "returned" =>
        /\ split_result.none <=> sample_size >= Cardinality(Candidates)
        /\ ~split_result.none =>
              /\ Cardinality(split_result.set) = sample_size
              /\ split_result.set \subseteq Candidates

\* The third example at a twentieth of its size: split_corpus(4, 1.5, {0, 1, 4})
\* returned one index of {2, 3}. (The first two examples likewise: a float
\* fraction of the corpus, and a count above the corpus size giving None.)
C7_Witness ==
    /\ split_pc = "returned"
    /\ corpus_size = 4
    /\ split_size = FloatSize(6)
    /\ used_indices = {0, 1, 4}
    /\ ~split_result.none
    /\ split_result.set = {3}

\* C8 (as amended): a float split_size of at most 1, exactly 1.0 included, is
\* a fraction of corpus_size (1.0 asks for corpus_size indices); a float above
\* 1, truncated, or an int is an absolute count.
C8_SplitSizeSemantics ==
    split_pc = "returned" =>
        sample_size =
            IF split_size.float /\ split_size.num <= FloatDen
            THEN (corpus_size * split_size.num) \div FloatDen
            ELSE IF split_size.float
            THEN split_size.num \div FloatDen
            ELSE split_size.num

\* The number of indices C8 as stated has split_size ask for: a float below 1
\* is a fraction, a float of 1.0 or more an absolute count.
StatedCount ==
    IF split_size.float /\ split_size.num < FloatDen
    THEN (corpus_size * split_size.num) \div FloatDen
    ELSE IF split_size.float
    THEN split_size.num \div FloatDen
    ELSE split_size.num

\* C8 as stated, by what the call returns: None when the stated count is at
\* least the population, else that many indices (1.0 gives exactly one index).
C8_OneIsAbsoluteCount ==
    split_pc = "returned" =>
        /\ split_result.none <=> StatedCount >= Cardinality(Candidates)
        /\ ~split_result.none => Cardinality(split_result.set) = StatedCount

\* split_corpus(3, 1.0) asked for three indices and returned None.
C8_Witness ==
    /\ split_pc = "returned"
    /\ corpus_size = 3
    /\ split_size = FloatSize(FloatDen)
    /\ used_indices = {}
    /\ sample_size = 3
    /\ split_result.none

---------------------------------------------------------------------------
(* Properties of CorpusPairsConfig._build_corpora, under SpecBuild *)

\* The pair's three splits have been drawn.
SplitsDrawn == build_pc \in {"write", "done"}

\* The numbers of indices the pair's test_size and val_size ask for.
TestCount == SplitCount(pair_corpus_size, TestSize(pair))
ValCount == SplitCount(pair_corpus_size, ValSize(pair))

\* The sentence indices of the running pair written to a file.
WrittenIndices(out) == {out[k].index : k \in {j \in 1..Len(out) : out[j].pair = pair_no}}

\* C9: for a test and validation pair with test_size + val_size below
\* corpus_size, _build_corpora draws a test set of test_size and a validation
\* set of val_size indices that are disjoint, so that their union has
\* test_size + val_size indices; the train set, drawn with used_indices =
\* test | val, is disjoint from both, and so are the sentences written to the
\* train files, also when the train set is None (all the sentences left).
C9_SplitsDisjoint ==
    (/\ SplitsDrawn
     /\ pair.is_test
     /\ pair.is_val
     /\ TestCount + ValCount < pair_corpus_size)
    => /\ ~test_indices.none
       /\ ~val_indices.none
       /\ Cardinality(test_indices.set) = TestCount
       /\ Cardinality(val_indices.set) = ValCount
       /\ test_indices.set \cap val_indices.set = {}
       /\ Cardinality(test_indices.set \cup val_indices.set) = TestCount + ValCount
       /\ train_indices.set \cap (test_indices.set \cup val_indices.set) = {}
       /\ WrittenIndices(train_out) \cap (test_indices.set \cup val_indices.set) = {}

\* A pair of three sentences is split into one test, one validation and one
\* train sentence, all written.
C9_Witness ==
    /\ build_pc = "done"
    /\ Len(corpus_pairs) = 1
    /\ pair.is_train /\ pair.is_test /\ pair.is_val
    /\ pair_corpus_size = 3
    /\ TestCount = 1
    /\ ValCount = 1
    /\ Cardinality(test_indices.set) = 1
    /\ Cardinality(val_indices.set) = 1
    /\ WrittenIndices(train_out) # {}
    /\ WrittenIndices(val_out) = val_indices.set

\* C10: two corpus pairs with the same (src_iso, trg_iso) of one run are split
\* by the same test and the same validation index set, the sets drawn for the
\* first of them.
C10_SameLanguagePairSameSplit ==
    \A i, j \in 1..Len(pair_splits) :
        (/\ corpus_pairs[i].src_iso = corpus_pairs[j].src_iso
         /\ corpus_pairs[i].trg_iso = corpus_pairs[j].trg_iso)
        => /\ pair_splits[i].test_indices = pair_splits[j].test_indices
           /\ pair_splits[i].val_indices = pair_splits[j].val_indices

---------------------------------------------------------------------------
(* Properties of split_parallel_corpus, under SpecSplitParallel *)

\* The rows of a table with an index label in a set.
RowsIn(table, labels) == {r \in table : r.index \in labels}

\* C17: with split_indices given, split_parallel_corpus returns as split
\* exactly the rows whose index label is in split_indices and as remainder
\* exactly the other rows: the two are disjoint and make up the table, labels
\* in split_indices that are not in the table change nothing, and neither
\* does split_size.
C17_SplitByIndices ==
    (par_pc = "returned" /\ ~par_split_indices.none)
    => /\ par_result.split = RowsIn(par_corpus, par_split_indices.set)
       /\ par_result.corpus = par_corpus \ RowsIn(par_corpus, par_split_indices.set)
       /\ par_result.split \cap par_result.corpus = {}
       /\ par_result.split \cup par_result.corpus = par_corpus
       /\ par_result.split =
            RowsIn(par_corpus, par_split_indices.set \cap Index(par_corpus))

\* Three rows split by {0, 3}, a label of the table and one that is not, with
\* split_size 2: row 0 is the split.
C17_Witness ==
    /\ par_pc = "returned"
    /\ Index(par_corpus) = {0, 1, 2}
    /\ par_split_size = 2
    /\ par_split_indices = Some({0, 3})
    /\ Index(par_result.split) = {0}
    /\ Index(par_result.corpus) = {1, 2}

---------------------------------------------------------------------------
(* Properties of filter_parallel_corpus, under SpecFilter *)

Removed == flt_corpus \ flt_result

\* No removed row has a higher score than a row that is kept.
RemovedAreLowest == \A r \in Removed : \A kept \in flt_result : r.score <= kept.score

\* A tenth of the rows of the table, rounded up.
TenthOfCorpus == (Cardinality(flt_corpus) + 9) \div 10

\* C19: with a score_threshold below 1 the cutoff is the smaller of the
\* threshold and the 10th-percentile score, the rows kept are those with a
\* score above the cutoff, and the rows removed are at most the lowest-scored
\* tenth of the table, also when rows tie at the cutoff.
C19_AtMostLowestTenth ==
    (flt_pc = "returned" /\ flt_score_threshold < FloatDen /\ flt_corpus # {})
    => /\ flt_result =
            {r \in flt_corpus :
                10 * r.score > Min(Quantile10(flt_corpus), 10 * flt_score_threshold)}
       /\ RemovedAreLowest
       /\ Cardinality(Removed) <= TenthOfCorpus

\* C20: with 1 <= score_threshold < len(corpus) exactly floor(score_threshold)
\* rows are dropped, none of them scored higher than a kept row (threshold 1:
\* one row of the lowest score); the others are kept as they are; with
\* score_threshold >= len(corpus) the table is returned unchanged.
C20_DropLowestRows ==
    (flt_pc = "returned" /\ flt_score_threshold >= FloatDen)
    => IF flt_score_threshold < Cardinality(flt_corpus) * FloatDen
       THEN /\ flt_result \subseteq flt_corpus
            /\ Cardinality(Removed) = flt_score_threshold \div FloatDen
            /\ RemovedAreLowest
            /\ flt_score_threshold = FloatDen =>
                 \E r \in flt_corpus :
                    /\ Removed = {r}
                    /\ \A other \in flt_corpus : r.score <= other.score
       ELSE flt_result = flt_corpus

\* Three rows, two of them tied at the lowest score, filtered with a
\* threshold between 2 and 3: the row of the highest score is left.
C20_Witness ==
    /\ flt_pc = "returned"
    /\ flt_score_threshold = 2 * FloatDen + 1
    /\ Cardinality(flt_corpus) = 3
    /\ {r.score : r \in flt_corpus} = {1, 3}
    /\ Cardinality({r \in flt_corpus : r.score = 1}) = 2
    /\ {r.score : r \in flt_result} = {3}
    /\ Cardinality(flt_result) = 1

---------------------------------------------------------------------------
(* Mirroring in CorpusPairsConfig._build_corpora, under SpecBuild *)

\* The (pair, index) of the lines accepted into an output file.
Accepted(out) == {<<out[k].pair, out[k].index>> : k \in 1..Len(out)}

\* A written sentence without its tag.
Untagged(sentence) ==
    IF self_write_trg_tag THEN SubSeq(sentence, 3, Len(sentence)) ELSE sentence

\* The row is a line as read: a source sentence, tagged with the target
\* language when tags are written, and its target sentence.
IsForward(row) ==
    /\ row.src = InsertTrgTag(corpus_pairs[row.pair].trg_iso, <<"s">>)
    /\ row.trg = <<"t">>

\* `image` is `row` with source and target swapped, tagged with the language
\* of the other direction when tags are written.
IsMirrorOf(image, row) ==
    /\ image.pair = row.pair
    /\ image.index = row.index
    /\ image.src = InsertTrgTag(corpus_pairs[row.pair].src_iso, row.trg)
    /\ image.trg = Untagged(row.src)

\* The file holds every accepted line once, as read.
IsUnmirrored(out) ==
    /\ Len(out) = Cardinality(Accepted(out))
    /\ \A k \in 1..Len(out) : IsForward(out[k])

\* The file holds every accepted line twice: as read, then mirrored.
IsMirrored(out) ==
    /\ Len(out) = 2 * Cardinality(Accepted(out))
    /\ \A k \in 1..Len(out) :
        IF k % 2 = 1 THEN IsForward(out[k]) ELSE IsMirrorOf(out[k], out[k - 1])

---------------------------------------------------------------------------
(* Properties of add_to_eval_dataset, under SpecEval *)

\* The calls made for a language pair, and those that brought rows.
CallsFor(key) == {call \in eval_calls : call.key = key}
CallsWithRows(key) == {call \in CallsFor(key) : call.new_data # {}}

\* The table has one row for every index label the calls brought, and no two
\* rows with the same label.
OneRowPerIndex(key, table) ==
    /\ EvalIndex(table) = UNION {Index(call.new_data) : call \in CallsWithRows(key)}
    /\ Cardinality(table.rows) = Cardinality(EvalIndex(table))

\* In the column of each project a row holds the project's text, or the
\* empty string when the project brought no such row.
CellsFilled(key, table) ==
    \A call \in CallsWithRows(key) : \A r \in table.rows :
        r.target[call.trg_project] =
            IF r.index \in Index(call.new_data) THEN ProjectText(call.trg_project) ELSE <<>>

\* The table of every language pair after the calls made so far, when only
\* the projects that brought rows have a column.
EvalTablesAccumulate ==
    /\ DOMAIN eval_dataset = {key \in EvalKeys : CallsWithRows(key) # {}}
    /\ \A key \in DOMAIN eval_dataset :
        /\ eval_dataset[key].columns = {call.trg_project : call \in CallsWithRows(key)}
        /\ OneRowPerIndex(key, eval_dataset[key])
        /\ CellsFilled(key, eval_dataset[key])

\* A call leaves every cell of the rows that were there as it was.
CellsKept ==
    \A key \in DOMAIN eval_dataset :
        /\ key \in DOMAIN eval_dataset'
        /\ \A r \in eval_dataset[key].rows :
            \E kept \in eval_dataset'[key].rows :
                /\ kept.index = r.index
                /\ kept.book = r.book
                /\ kept.source = r.source
                /\ \A c \in eval_dataset[key].columns : kept.target[c] = r.target[c]

\* C15, as stated: every project of the calls of a language pair has its
\* target_<project> column in the pair's table.
C15_OneColumnPerProject ==
    \A key \in DOMAIN eval_dataset :
        eval_dataset[key].columns = {call.trg_project : call \in CallsFor(key)}

\* C15, amended: the calls for a language pair accumulate into one table with
\* exactly one row for each index label brought, one target_<project> column
\* for each project whose call brought at least one row, the empty string
\* where a project has no text for a row, and no cell already there changed.
C15_EvalDatasetAccumulates == []EvalTablesAccumulate /\ [][CellsKept]_vars

\* Two projects brought different rows for en-fr, a third brought none: each
\* of the two has an empty cell where only the other has text.
C15_Witness ==
    /\ <<"en", "fr">> \in DOMAIN eval_dataset
    /\ eval_dataset[<<"en", "fr">>].columns = {"A", "B"}
    /\ \E call \in CallsFor(<<"en", "fr">>) : call.trg_project = "C" /\ call.new_data = {}
    /\ \E r \in eval_dataset[<<"en", "fr">>].rows :
        r.target["A"] = <<"A">> /\ r.target["B"] = <<>>
    /\ \E r \in eval_dataset[<<"en", "fr">>].rows :
        r.target["A"] = <<>> /\ r.target["B"] = <<"B">>

---------------------------------------------------------------------------
(* Properties of preprocess_scripture, under SpecPrep *)

\* The language of a target project.
IsoOf(trg_project) ==
    (CHOOSE f \in {AllTrgFiles[k] : k \in 1..Len(AllTrgFiles)} : f.project = trg_project).iso

\* The rows the target projects of a language pair gave to train, source to
\* target.
TrainRowsOf(key) ==
    IF scripture_train.none THEN {}
    ELSE {r \in scripture_train.set :
            r.src_project = SrcProject /\ key = <<SrcIso, IsoOf(r.trg_project)>>}

\* C11: when every target file has been handled, no index label of the test
\* set of a language pair is the label of a row that a target project of
\* this pair, train-only or not, gave to train.
C11_NoTestIndexInTrain ==
    prep_pc = "done" =>
        \A key \in DOMAIN scripture_test :
            \A r \in TrainRowsOf(key) : r.index \notin EvalIndex(scripture_test[key])

\* C12: with disjoint_test and disjoint_val both on, the test indices and the
\* validation indices drawn for all pairs share no index, whichever was
\* drawn first, and no index label is in the test set of a language pair and
\* in the validation set of a language pair.
C12_TestAndValDisjoint ==
    (data_config.disjoint_test /\ data_config.disjoint_val) =>
        /\ scripture_test_indices.set \cap scripture_val_indices.set = {}
        /\ \A test_key \in DOMAIN scripture_test : \A val_key \in DOMAIN scripture_val :
            EvalIndex(scripture_test[test_key]) \cap EvalIndex(scripture_val[val_key]) = {}

\* Both are on, both index sets were drawn and have indices, and when all
\* files are handled the French pair has test rows and the German pair has
\* validation rows.
C12_Witness ==
    /\ prep_pc = "done"
    /\ data_config.disjoint_test /\ data_config.disjoint_val
    /\ scripture_test_indices.set # {}
    /\ scripture_val_indices.set # {}
    /\ <<"en", "fr">> \in DOMAIN scripture_test
    /\ <<"en", "de">> \in DOMAIN scripture_val

\* C13: no row of a book of test_books is in the training pool of a pass, in
\* train or in a validation set, whatever corpus_books is and whatever
\* indices the splits go by.
C13_TestBooksKeptFromTrain ==
    /\ \A r \in pass.pool \cup pass.cur_train \cup pass.cur_val :
        r.book \notin data_config.test_books
    /\ \A r \in scripture_train.set : r.book \notin data_config.test_books
    /\ \A key \in DOMAIN scripture_val :
        \A r \in scripture_val[key].rows : r.book \notin data_config.test_books

\* corpus_books holds both books and test_books the second: when all files
\* are handled train and the validation set have rows of the first book and
\* the test set rows of the second.
C13_Witness ==
    /\ prep_pc = "done"
    /\ data_config.corpus_books = Books
    /\ data_config.test_books = {2}
    /\ data_config.disjoint_test
    /\ scripture_train.set # {}
    /\ <<"en", "fr">> \in DOMAIN scripture_val
    /\ <<"en", "fr">> \in DOMAIN scripture_test
    /\ \E r \in scripture_test[<<"en", "fr">>].rows : r.book = 2

\* C14: the score threshold has no part in the validation rows of a pass:
\* they are rows that the split of the pool as it was before the filter, by
\* the same size and the same indices, yields.
C14_ValRowsIgnoreThreshold ==
    pass.is_train_ref =>
        pass.cur_val \in {x.split : x \in SplitParallelCorpus(pass.pool, data_config.val_size,
                                                             pass.val_split_indices)}

---------------------------------------------------------------------------
(* Properties of the canon lookups, under SpecCanon *)

\* C21: for every id of the table and its place n, the number of the id of n
\* is n and the id of the number of the id, in any spelling of upper and
\* lower case, is the id; an id that is not in the table and a number
\* without an entry raise an error.
C21_RoundTrip ==
    /\ (canon_call = "book_number_to_id" /\ canon_pc # "call") =>
        IF book_number \in 1..Len(ALL_BOOK_IDS)
        THEN /\ ~number_to_id.raised
             /\ canon_pc = "round_trip" => id_to_number = Returned(book_number)
        ELSE number_to_id.raised
    /\ (canon_call = "book_id_to_number" /\ canon_pc # "call") =>
        IF InBookNumbers(Upper(book_id))
        THEN /\ ~id_to_number.raised
             /\ canon_pc = "round_trip" => number_to_id = Returned(Upper(book_id))
        ELSE id_to_number.raised

\* C22: book_number_to_id(n) returns the entry at the 1-based place n of the
\* table exactly when 1 <= n < len(ALL_BOOK_IDS), and raises the error of an
\* invalid book number for every other n, len(ALL_BOOK_IDS) among them.
C22_NumberToIdRange ==
    (canon_call = "book_number_to_id" /\ canon_pc # "call") =>
        IF 1 <= book_number /\ book_number < Len(ALL_BOOK_IDS)
        THEN /\ canon_pc # "raised"
             /\ number_to_id = Returned(ALL_BOOK_IDS[book_number])
        ELSE /\ canon_pc = "raised"
             /\ number_to_id = Raised("The book number is invalid.")

\* The call with the number that book_id_to_number gives the last entry of
\* the table has raised the error.
C22_Witness ==
    /\ canon_call = "book_number_to_id"
    /\ canon_pc = "raised"
    /\ book_number = Len(ALL_BOOK_IDS)
    /\ BookIdToNumber(ALL_BOOK_IDS[Len(ALL_BOOK_IDS)]) = Returned(book_number)

---------------------------------------------------------------------------
(* None as a split in CorpusPairsConfig._build_corpora, under SpecBuild *)

\* All lines of the running pair have been read.
PairWritten == build_pc \in {"write", "done"} /\ line_no = Len(input_file)

\* The sentence indices of the pair, those of its lines that are not skipped.
PairIndices == 0..(pair_corpus_size - 1)

\* The sentence indices of the running pair written to its test file.
TestWritten == WrittenIndices(test_out[TestPrefix(pair)])

\* C24: a split that is None stands for all the sentences left, never for
\* none: with the test split None every sentence of the pair is written to
\* test and none to val or train; with the validation split None every
\* sentence not written to test is written to val and none to train; with
\* the train split None every sentence not written to test or val is
\* written to train. No sentence is written to more than one of the three.
C24_NoneIsAllRemaining ==
    /\ SplitsDrawn =>
        /\ TestWritten \cap WrittenIndices(val_out) = {}
        /\ TestWritten \cap WrittenIndices(train_out) = {}
        /\ WrittenIndices(val_out) \cap WrittenIndices(train_out) = {}
    /\ PairWritten =>
        /\ test_indices.none =>
            /\ TestWritten = PairIndices
            /\ WrittenIndices(val_out) = {}
            /\ WrittenIndices(train_out) = {}
        /\ val_indices.none =>
            /\ WrittenIndices(val_out) = PairIndices \ TestWritten
            /\ WrittenIndices(train_out) = {}
        /\ train_indices.none =>
            WrittenIndices(train_out) = PairIndices \ (TestWritten \cup WrittenIndices(val_out))

\* A pair of three sentences whose test split is one index and whose
\* validation split is None: one sentence is in test, two are in val.
C24_Witness ==
    /\ PairWritten
    /\ pair_corpus_size = 3
    /\ ~test_indices.none
    /\ Cardinality(TestWritten) = 1
    /\ val_indices.none
    /\ Cardinality(WrittenIndices(val_out)) = 2

---------------------------------------------------------------------------
(* Further properties of get_scripture_parallel_corpus, under SpecCorpus *)

\* The call returns in this step with remove_empty_sentences = False.
ReturnsUnfiltered == pc = "loop" /\ pc' = "returned" /\ ~remove_empty_sentences

\* C26: with remove_empty_sentences = False no row is dropped: a row whose
\* source or target is empty after the range lines were merged has both
\* cells empty in the table returned, every other row has its cells as they
\* were, and the rows, their references and their indices are the same.
C26_BlankedNotDropped ==
    [][ReturnsUnfiltered =>
        /\ Len(vrefs') = Len(vrefs)
        /\ vrefs' = vrefs
        /\ indices' = indices
        /\ Len(src_sentences') = Len(src_sentences)
        /\ Len(trg_sentences') = Len(trg_sentences)
        /\ \A i \in 1..Len(vrefs) :
            IF Len(src_sentences[i]) = 0 \/ Len(trg_sentences[i]) = 0
            THEN src_sentences'[i] = <<>> /\ trg_sentences'[i] = <<>>
            ELSE /\ src_sentences'[i] = src_sentences[i]
                 /\ trg_sentences'[i] = trg_sentences[i]]_vars

\* The call has returned two rows with remove_empty_sentences = False: one
\* with both cells empty whose line had a target sentence and no source
\* sentence, one with both sentences.
C26_Witness ==
    /\ pc = "returned"
    /\ ~remove_empty_sentences
    /\ \E i \in 1..Len(indices) :
        /\ src_sentences[i] = <<>>
        /\ trg_sentences[i] = <<>>
        /\ Strip(lines[indices[i] + 1][1]) = <<>>
        /\ Strip(lines[indices[i] + 1][2]) = <<"t">>
    /\ \E i \in 1..Len(indices) : src_sentences[i] # <<>> /\ trg_sentences[i] # <<>>

\* C27: a range line whose reference lies in another book than the last
\* accepted row's reference raises nothing, adds no row and leaves every
\* reference as it is, also when both chapters have the same number.
C27_OtherBookNotMerged ==
    [][(/\ pc = "loop"
        /\ Len(lines') = Len(lines) + 1
        /\ vrefs # <<>>
        /\ (NewSrcLine = RANGE \/ NewTrgLine = RANGE)
        /\ NewVref.book_num # Last(vrefs).book_num)
        => /\ pc' = "loop"
           /\ index' = index + 1
           /\ vrefs' = vrefs
           /\ indices' = indices]_vars

\* Some physical line read so far is no range line.
SomeRowLine == \E k \in 1..Len(lines) : ~IsRangeLine(k)

\* C28: while the loop runs, once a line that is no range line has been read
\* the list of accepted rows is not empty, so every later range line finds a
\* last row; a call whose first physical line is a range line has failed at
\* that line, with no row accepted, no further line read and no table
\* returned.
C28_RangeNeedsLastRow ==
    /\ (pc = "loop" /\ SomeRowLine) => vrefs # <<>>
    /\ (Len(lines) >= 1 /\ IsRangeLine(1))
          => (pc = "error" /\ Len(lines) = 1 /\ index = 0 /\ vrefs = <<>>)

\* The first physical line had <range> as its source and the call has failed.
C28_Witness ==
    /\ pc = "error"
    /\ Len(lines) = 1
    /\ SrcLine(1) = RANGE
    /\ vrefs = <<>>

(* Properties of the validation files, under SpecPrep.                     *)

\* The validation files have been written.
ValWritten == prep_pc = "done" /\ val_src_file # <<>>

\* The reference file f has the lines of val.src.txt, row by row.
RefFileAligned(f) ==
    /\ Len(ref_files[f]) = Len(val_src_file)
    /\ \A k \in 1..Len(ref_files[f]) :
          /\ ref_files[f][k].key = val_src_file[k].key
          /\ ref_files[f][k].index = val_src_file[k].index

\* C29: once the validation set is written, every reference file has as many
\* lines as val.src.txt and its line k is of the validation row that line k
\* of val.src.txt is of.
C29_RefFilesAligned ==
    ValWritten => \A f \in 1..Len(ref_files) : RefFileAligned(f)

(* Properties of process_alignments, under SpecAlign.                      *)

\* The call has ended: it has returned or it has raised.
AlignEnded == align_pc \in {"returned", "raised"}

\* The units of the map have been handed to the pool.
Mapped == multiprocess /\ (align_pc = "get" \/ (AlignEnded /\ CpuNum >= 1))

\* No file has been written by two units.
NoSharedFile ==
    \A w1, w2 \in align_writes : w1.path = w2.path => w1.unit = w2.unit

\* The unit of target t has run to its end: the scores are written.
UnitCompleted(t) == [unit |-> t, path |-> ScoresPath(t)] \in align_writes

\* Every unit of the map that does not raise itself has run to its end.
OthersCompleted ==
    \A t \in Stems(all_kwargs) : t \notin align_fails => UnitCompleted(t)

\* No unit of the map is waiting for a worker or running.
NoUnitLeft ==
    /\ task_queue = <<>>
    /\ \A w \in DOMAIN pool_workers : pool_workers[w] = NoUnit

\* C25: with multiprocess, no two units write one file; and when the call
\* ends after the units were handed to the pool, no unit is waiting or
\* running, and every unit that does not raise itself has run to its end,
\* whatever the other units did.
C25_WorkersIndependent ==
    /\ NoSharedFile
    /\ (Mapped /\ AlignEnded) => (NoUnitLeft /\ OthersCompleted)

\* C30: when the call has ended, in either mode, align_set has been called
\* once for every target that had no alignment.scores.txt and never for a
\* target that had it, and every file written lies in the directory of the
\* unit that wrote it.
C30_EachMissingTargetOnce ==
    /\ AlignEnded =>
          \A t \in Stems(trg_paths) :
              align_runs[t] = IF t \in had_scores THEN 0 ELSE 1
    /\ \A w \in align_writes : w.path[1] = w.unit

===========================================================================
